---- MODULE Spec2Model ----
(***************************************************************************)
(* Model of the intent resolution / command routing / device-state engine  *)
(* of the eldercare backend: MQTTService (transport client + state cache), *)
(* the /mqtt/send route, and the text pipeline of AIService.               *)
(*                                                                         *)
(* Strings that the code inspects character by character (payloads, user   *)
(* text, keywords) are sequences of one-character strings; topics are      *)
(* sequences of their '/'-separated levels.                                *)
(***************************************************************************)
EXTENDS Integers, Sequences, FiniteSets, TLC

\* ------------------------------------------------------------------------
\* Bounds of the model
\* ------------------------------------------------------------------------
MaxClock == 2
MaxCallbacks == 2
MaxWords == 2
MaxMutations == 1
MaxSessions == 2

None == "None"

\* ------------------------------------------------------------------------
\* Character-level string helpers (str methods used by the code)
\* ------------------------------------------------------------------------
Digits == {"0", "1", "2", "3", "4", "5", "6", "7", "8", "9"}

DigitVal(c) ==
    CASE c = "0" -> 0 [] c = "1" -> 1 [] c = "2" -> 2 [] c = "3" -> 3
      [] c = "4" -> 4 [] c = "5" -> 5 [] c = "6" -> 6 [] c = "7" -> 7
      [] c = "8" -> 8 [] c = "9" -> 9

\* s[i..j] as Python slices it
Slice(s, i, j) == IF i > j THEN <<>> ELSE SubSeq(s, i, j)

\* `sub in s`
Contains(s, sub) ==
    \E i \in 1..(Len(s) - Len(sub) + 1) : \A j \in 1..Len(sub) : s[i + j - 1] = sub[j]

\* s.startswith(p)
StartsWith(s, p) == Len(s) >= Len(p) /\ SubSeq(s, 1, Len(p)) = p

\* s.strip(): leading and trailing blanks removed
RECURSIVE LStrip(_)
LStrip(s) == IF s # <<>> /\ Head(s) = " " THEN LStrip(Tail(s)) ELSE s

RECURSIVE RStrip(_)
RStrip(s) == IF s # <<>> /\ s[Len(s)] = " " THEN RStrip(SubSeq(s, 1, Len(s) - 1)) ELSE s

Strip(s) == RStrip(LStrip(s))

\* s.split(sep) for a one-character separator: the list of fields
RECURSIVE Split(_, _)
Split(s, sep) ==
    IF \E i \in 1..Len(s) : s[i] = sep
    THEN LET i == CHOOSE k \in 1..Len(s) : s[k] = sep /\ \A j \in 1..(k - 1) : s[j] # sep
         IN  <<Slice(s, 1, i - 1)>> \o Split(Slice(s, i + 1, Len(s)), sep)
    ELSE <<s>>

\* a non-empty run of decimal digits
IsDigits(s) == s # <<>> /\ \A i \in 1..Len(s) : s[i] \in Digits

RECURSIVE DigitsVal(_)
DigitsVal(s) == IF s = <<>> THEN 0 ELSE 10 * DigitsVal(SubSeq(s, 1, Len(s) - 1)) + DigitVal(s[Len(s)])

\* int(s): blanks stripped, optional sign, decimal digits
Unsigned(s) == IF s # <<>> /\ Head(s) \in {"-", "+"} THEN Tail(s) ELSE s
IsInt(s) == IsDigits(Unsigned(Strip(s)))
NumberVal(s) ==
    LET t == Strip(s)
    IN  IF Head(t) = "-" THEN 0 - DigitsVal(Tail(t)) ELSE DigitsVal(Unsigned(t))

\* float(s) accepts what int(s) accepts and the special literal nan; the
\* payload alphabet of the model has no '.', so other literals are integral
NaNLiteral == <<"n", "a", "n">>
IsFloat(s) == IsInt(s) \/ Unsigned(Strip(s)) = NaNLiteral

\* Python values held by the cache, tagged with their type
PyFloat(n) == [t |-> "float", v |-> n]
PyInt(n) == [t |-> "int", v |-> n]
PyStr(s) == [t |-> "str", v |-> s]
PyNone == [t |-> "NoneType", v |-> 0]
\* datetime.datetime.now().isoformat() taken at logical time n
IsoTime(n) == [t |-> "isotime", v |-> n]
PyNaN == [t |-> "float_nan", v |-> 0]
FloatVal(s) == IF IsInt(s) THEN PyFloat(NumberVal(s)) ELSE PyNaN

\* ------------------------------------------------------------------------
\* Topics and payloads
\* ------------------------------------------------------------------------
T_dht11 == <<"home", "dht11">>
T_led_cmd == <<"home", "led", "cmd">>
T_thermostat_set == <<"home", "thermostat", "set">>
T_thermostat_cmd == <<"home", "thermostat", "cmd">>
T_led_status == <<"home", "led", "status">>
T_thermostat_status == <<"home", "thermostat", "status">>
T_elder_voice == <<"elder", "voice">>
T_elder_emergency == <<"elder", "emergency">>
T_caregiver_commands == <<"caregiver", "commands">>
T_home_wildcard == <<"home", "+", "+">>
T_bedroom_lights_cmd == <<"home", "bedroom", "lights", "cmd">>

\* topics used by inbound messages and by publishers in the model
Topics ==
    {T_dht11, T_led_cmd, T_thermostat_set, T_thermostat_cmd, T_led_status,
     T_elder_voice, T_bedroom_lights_cmd}

P_ON == <<"O", "N">>
P_OFF == <<"O", "F", "F">>
P_on_lower == <<"o", "n">>
P_25 == <<"2", "5">>
P_sensor == <<"2", "1", ",", " ", "4", "0">>
P_sensor_3fields == <<"2", "1", ",", "4", ",", "0">>
P_sensor_badtemp == <<"x", ",", "4", "0">>
P_sensor_badhum == <<"2", "1", ",", "x">>
P_sensor_nan == <<"n", "a", "n", ",", "4", "0">>
P_set_temp == <<"S", "E", "T", "_", "T", "E", "M", "P", ":", "2", "5">>
P_set_temp_bad == <<"S", "E", "T", "_", "T", "E", "M", "P", ":", "x">>
P_SET_TEMP_prefix == <<"S", "E", "T", "_", "T", "E", "M", "P", ":">>
\* a payload holding a byte sequence that is not UTF-8
BadByte == "\\xff"
P_undecodable == <<BadByte>>

Handlers == {"h1", "h2"}

\* topic filter matching done by the broker: '+' matches one level
Matches(filter, topic) ==
    /\ Len(filter) = Len(topic)
    /\ \A i \in 1..Len(filter) : filter[i] = "+" \/ filter[i] = topic[i]

\* msg.payload.decode('utf-8') succeeds
Decodable(p) == \A i \in 1..Len(p) : p[i] # BadByte

\* ------------------------------------------------------------------------
\* State
\* ------------------------------------------------------------------------
VARIABLES
    client,             \* self.client: "none" or "present"
    connState,          \* transport state; is_connected() <=> "Connected"
    loopRunning,        \* the background network loop thread is running
    subscribed,         \* topic filters subscribed in the current session
    sessions,           \* number of times the client entered Connected
    message_callbacks,  \* self.message_callbacks: topic -> list of handlers
    stale,              \* handlers registered when disconnect() was last called
    current_state,      \* self.current_state: top-level dict, key -> reference
    heap,               \* the nested dict objects, reference -> dict
    now,                \* logical clock behind datetime.now()
    inPc,               \* position of the delivery thread inside on_message
    inMsg,              \* the message on_message is handling
    inPlan,             \* cache writes of _process_arduino_message still to do
    invoked,            \* callback calls made for the last handled message
    cbErrors,           \* handlers that raised for the last handled message
    forwarded,          \* updates sent to WebSocket clients for that message
    sendPc,             \* position of the request worker in send_mqtt_message
    sendReq,            \* the request being served
    sendPath,           \* path publish_message took
    sendSuccess,        \* value publish_message returned
    sendResult,         \* what the route handed to the caller
    snapshot,           \* the dict a reader got from get_current_state()
    observed,           \* the sensor values a reader read through its snapshot
    mutations,          \* number of writes a reader made into its snapshot
    message,            \* text given to _process_elder_communication
    elder_info,         \* the elder_info argument given with it
    nluPc,              \* position of the text pipeline
    detected,           \* what detect_intent_from_keywords returned
    matcherCalls,       \* texts find_device_by_keyword was called with
    nluResult,          \* the result handed back
    response_data,      \* what the text-assistance route answered
    published,          \* publish_message calls the route made for the request
    multiroom,          \* update_multiroom_arduino has been run on the database
    inactive,           \* intents whose is_active flag is 0
    extra_parameters,   \* rows of action_parameters added besides the two scripts'
    tie_order,          \* order in which the engine returns rows of equal sort key
    active_connections, \* WebSocketManager.active_connections
    bcPc,               \* position of a running WebSocketManager.broadcast
    bcIndex,            \* index of the list iterator of its for loop
    bcBegan,            \* active_connections when the broadcast began
    bcAttempted,        \* connections send_text was called on
    bcFailed,           \* connections whose send_text raised
    peer_heap,          \* caches of the MQTTService objects of chat_routes and AIService
    cmdReq,             \* the device command being served
    cmdOutcome,         \* what the route or device function answered
    cmdSent,            \* publish_message calls made for the command
    svc,                \* the service method called last
    svcDevice,          \* the device_id argument of find_best_action
    svcFunction,        \* the function_name argument of generate_action_parameters
    svcDevices,         \* what find_device_by_keyword returned
    svcAction,          \* what find_best_action returned
    svcParameters,      \* what generate_action_parameters returned
    svcThreshold,       \* the confidence_threshold argument of detect_intent_from_keywords
    svcPc               \* position of the caller: idle, called, returned

transportVars == <<client, connState, loopRunning, subscribed, sessions>>
registryVars == <<message_callbacks, stale>>
cacheVars == <<current_state, heap, now>>
inVars == <<inPc, inMsg, inPlan, invoked, cbErrors, forwarded>>
sendVars == <<sendPc, sendReq, sendPath, sendSuccess, sendResult>>
readerVars == <<snapshot, observed, mutations>>
catalogVars == <<multiroom, inactive, extra_parameters, tie_order>>
serviceVars == <<svc, svcDevice, svcFunction, svcDevices, svcAction, svcParameters, svcThreshold, svcPc>>
wsVars == <<active_connections, bcPc, bcIndex, bcBegan, bcAttempted, bcFailed>>
cmdVars == <<peer_heap, cmdReq, cmdOutcome, cmdSent>>
appVars == <<wsVars, cmdVars>>
nluVars == <<message, elder_info, nluPc, detected, matcherCalls, nluResult, response_data, published, catalogVars, serviceVars, appVars>>

vars == <<transportVars, registryVars, cacheVars, inVars, sendVars, readerVars, nluVars>>

\* dict[key] = value
SetKey(d, k, v) == [x \in (DOMAIN d) \cup {k} |-> IF x = k THEN v ELSE d[x]]

\* MQTTService.__init__: the nested dicts of current_state
InitSensors ==
    [temperature |-> PyFloat(22), humidity |-> PyFloat(50), last_update |-> PyNone]

InitDevices ==
    [led |-> PyStr(P_OFF), thermostat_target |-> PyInt(22), last_command |-> PyNone]

InitCurrentState == [sensors |-> "S", devices |-> "D"]

InitHeap == [S |-> InitSensors, D |-> InitDevices]

NoMsg == [topic |-> <<>>, payload |-> <<>>]
NoResult == [status |-> "none", simulated |-> FALSE, error |-> FALSE, raised |-> FALSE]
NoSnapshot == [sensors |-> "absent", devices |-> "absent"]
NoObserved == [temperature |-> PyNone, humidity |-> PyNone]

MqttInit ==
    /\ client = "none"
    /\ connState = "Disconnected"
    /\ loopRunning = FALSE
    /\ subscribed = {}
    /\ sessions = 0
    /\ message_callbacks = [t \in Topics |-> <<>>]
    /\ stale = {}
    /\ current_state = InitCurrentState
    /\ heap = InitHeap
    /\ now = 0
    /\ inPc = "idle"
    /\ inMsg = NoMsg
    /\ inPlan = <<>>
    /\ invoked = <<>>
    /\ cbErrors = {}
    /\ forwarded = <<>>
    /\ sendPc = "idle"
    /\ sendReq = NoMsg
    /\ sendPath = "none"
    /\ sendSuccess = FALSE
    /\ sendResult = NoResult
    /\ snapshot = NoSnapshot
    /\ observed = NoObserved
    /\ mutations = 0



\* ------------------------------------------------------------------------
\* Text pipeline: intent catalog, device catalog, _process_elder_communication
\* ------------------------------------------------------------------------
\* str.lower() on the letters
Capitals ==
    {"A", "B", "C", "D", "E", "F", "G", "H", "I", "J", "K", "L", "M",
     "N", "O", "P", "Q", "R", "S", "T", "U", "V", "W", "X", "Y", "Z"}

LowerChar(c) ==
    IF c \notin Capitals THEN c ELSE
    CASE c = "A" -> "a"
      [] c = "B" -> "b"
      [] c = "C" -> "c"
      [] c = "D" -> "d"
      [] c = "E" -> "e"
      [] c = "F" -> "f"
      [] c = "G" -> "g"
      [] c = "H" -> "h"
      [] c = "I" -> "i"
      [] c = "J" -> "j"
      [] c = "K" -> "k"
      [] c = "L" -> "l"
      [] c = "M" -> "m"
      [] c = "N" -> "n"
      [] c = "O" -> "o"
      [] c = "P" -> "p"
      [] c = "Q" -> "q"
      [] c = "R" -> "r"
      [] c = "S" -> "s"
      [] c = "T" -> "t"
      [] c = "U" -> "u"
      [] c = "V" -> "v"
      [] c = "W" -> "w"
      [] c = "X" -> "x"
      [] c = "Y" -> "y"
      [] c = "Z" -> "z"
      [] OTHER -> c

Lower(s) == [i \in 1..Len(s) |-> LowerChar(s[i])]

\* any(k in s for k in keywords)
AnyIn(keywords, s) == \E k \in keywords : Contains(s, k)

\* byte order of the characters of action names (BINARY collation)
Alphabet == <<"_", "a", "b", "c", "d", "e", "f", "g", "h", "i", "j", "k", "l", "m", "n", "o", "p", "q", "r", "s", "t", "u", "v", "w", "x", "y", "z">>

CharCode(c) == CHOOSE i \in 1..Len(Alphabet) : Alphabet[i] = c

\* a < b for strings
RECURSIVE StrLt(_, _)
StrLt(a, b) ==
    IF b = <<>> THEN FALSE
    ELSE IF a = <<>> THEN TRUE
    ELSE IF Head(a) = Head(b) THEN StrLt(Tail(a), Tail(b))
    ELSE CharCode(Head(a)) < CharCode(Head(b))

Min(a, b) == IF a <= b THEN a ELSE b
Max(a, b) == IF a >= b THEN a ELSE b

\* intents_data: intent -> confidence_threshold in hundredths; all rows are active
IntentThreshold ==
    [family_contact |-> 80,
     emergency |-> 90,
     smart_home |-> 70,
     arduino_led_control |-> 80,
     temperature_monitoring |-> 70,
     health_concern |-> 80,
     loneliness |-> 60,
     conversation |-> 50]

KW(intent, keyword, weight) == [intent |-> intent, keyword |-> keyword, weight |-> weight]

\* keywords_data in insertion order; weight in tenths
IntentKeywords ==
    <<KW("family_contact", <<"c", "a", "l", "l">>, 20),
      KW("family_contact", <<"p", "h", "o", "n", "e">>, 20),
      KW("family_contact", <<"c", "o", "n", "t", "a", "c", "t">>, 15),
      KW("family_contact", <<"s", "a", "r", "a", "h">>, 20),
      KW("family_contact", <<"f", "a", "m", "i", "l", "y">>, 18),
      KW("family_contact", <<"d", "a", "u", "g", "h", "t", "e", "r">>, 18),
      KW("family_contact", <<"s", "o", "n">>, 18),
      KW("family_contact", <<"v", "i", "d", "e", "o", " ", "c", "a", "l", "l">>, 20),
      KW("family_contact", <<"w", "h", "a", "t", "s", "a", "p", "p">>, 15),
      KW("emergency", <<"h", "e", "l", "p">>, 20),
      KW("emergency", <<"e", "m", "e", "r", "g", "e", "n", "c", "y">>, 25),
      KW("emergency", <<"p", "a", "i", "n">>, 18),
      KW("emergency", <<"h", "u", "r", "t">>, 18),
      KW("emergency", <<"f", "a", "l", "l">>, 20),
      KW("emergency", <<"s", "i", "c", "k">>, 15),
      KW("emergency", <<"a", "m", "b", "u", "l", "a", "n", "c", "e">>, 20),
      KW("emergency", <<"9", "1", "1">>, 25),
      KW("arduino_led_control", <<"l", "e", "d">>, 20),
      KW("arduino_led_control", <<"l", "i", "g", "h", "t">>, 18),
      KW("arduino_led_control", <<"t", "u", "r", "n", " ", "o", "n">>, 15),
      KW("arduino_led_control", <<"t", "u", "r", "n", " ", "o", "f", "f">>, 15),
      KW("arduino_led_control", <<"s", "w", "i", "t", "c", "h", " ", "o", "n">>, 15),
      KW("arduino_led_control", <<"s", "w", "i", "t", "c", "h", " ", "o", "f", "f">>, 15),
      KW("temperature_monitoring", <<"t", "e", "m", "p", "e", "r", "a", "t", "u", "r", "e">>, 20),
      KW("temperature_monitoring", <<"h", "u", "m", "i", "d", "i", "t", "y">>, 18),
      KW("temperature_monitoring", <<"t", "o", "o", " ", "h", "o", "t">>, 15),
      KW("temperature_monitoring", <<"t", "o", "o", " ", "c", "o", "l", "d">>, 15),
      KW("temperature_monitoring", <<"r", "o", "o", "m", " ", "t", "e", "m", "p">>, 18),
      KW("temperature_monitoring", <<"t", "h", "e", "r", "m", "o", "s", "t", "a", "t">>, 15),
      KW("smart_home", <<"s", "m", "a", "r", "t", " ", "h", "o", "m", "e">>, 20),
      KW("smart_home", <<"c", "o", "n", "t", "r", "o", "l">>, 15),
      KW("smart_home", <<"d", "e", "v", "i", "c", "e">>, 12),
      KW("health_concern", <<"m", "e", "d", "i", "c", "a", "t", "i", "o", "n">>, 18),
      KW("health_concern", <<"p", "i", "l", "l", "s">>, 18),
      KW("health_concern", <<"d", "o", "c", "t", "o", "r">>, 15),
      KW("health_concern", <<"n", "o", "t", " ", "f", "e", "e", "l", "i", "n", "g", " ", "w", "e", "l", "l">>, 20),
      KW("loneliness", <<"l", "o", "n", "e", "l", "y">>, 20),
      KW("loneliness", <<"s", "a", "d">>, 15),
      KW("loneliness", <<"t", "a", "l", "k">>, 12),
      KW("conversation", <<"h", "e", "l", "l", "o">>, 10),
      KW("conversation", <<"h", "o", "w", " ", "a", "r", "e", " ", "y", "o", "u">>, 12)>>

IA(intent, function_name, risk_level) ==
    [intent |-> intent, function_name |-> function_name, risk_level |-> risk_level]

\* actions_data in insertion order; all rows are active
IntentActions ==
    <<IA("family_contact", "start_video_call", "low"),
      IA("family_contact", "contact_family", "low"),
      IA("emergency", "call_emergency", "high"),
      IA("emergency", "send_health_alert", "medium"),
      IA("arduino_led_control", "control_arduino_led", "low"),
      IA("arduino_led_control", "control_arduino_led", "low"),
      IA("temperature_monitoring", "read_arduino_sensors", "low"),
      IA("temperature_monitoring", "set_target_temperature", "low"),
      IA("smart_home", "control_smart_device", "medium"),
      IA("health_concern", "schedule_medication_reminder", "medium"),
      IA("loneliness", "provide_companionship", "low"),
      IA("conversation", "general_conversation", "low")>>

\* update_multiroom_arduino: room_intents_data, intent -> confidence_threshold
\* in hundredths; all rows are active
MultiroomThreshold ==
    [living_room_lights |-> 80, bedroom_lights |-> 80, kitchen_lights |-> 80, bathroom_lights |-> 80]

\* update_multiroom_arduino: room_keywords_data in insertion order; weight in
\* tenths
MultiroomKeywords ==
    <<KW("living_room_lights", <<"l", "i", "v", "i", "n", "g", " ", "r", "o", "o", "m", " ", "l", "i", "g", "h", "t">>, 25),
      KW("living_room_lights", <<"l", "i", "v", "i", "n", "g", " ", "r", "o", "o", "m", " ", "l", "i", "g", "h", "t", "s">>, 25),
      KW("living_room_lights", <<"l", "o", "u", "n", "g", "e", " ", "l", "i", "g", "h", "t">>, 20),
      KW("living_room_lights", <<"m", "a", "i", "n", " ", "l", "i", "g", "h", "t">>, 18),
      KW("living_room_lights", <<"f", "r", "o", "n", "t", " ", "r", "o", "o", "m", " ", "l", "i", "g", "h", "t">>, 20),
      KW("bedroom_lights", <<"b", "e", "d", "r", "o", "o", "m", " ", "l", "i", "g", "h", "t">>, 25),
      KW("bedroom_lights", <<"b", "e", "d", "r", "o", "o", "m", " ", "l", "i", "g", "h", "t", "s">>, 25),
      KW("bedroom_lights", <<"r", "o", "o", "m", " ", "l", "i", "g", "h", "t">>, 18),
      KW("bedroom_lights", <<"s", "l", "e", "e", "p", "i", "n", "g", " ", "r", "o", "o", "m", " ", "l", "i", "g", "h", "t">>, 20),
      KW("kitchen_lights", <<"k", "i", "t", "c", "h", "e", "n", " ", "l", "i", "g", "h", "t">>, 25),
      KW("kitchen_lights", <<"k", "i", "t", "c", "h", "e", "n", " ", "l", "i", "g", "h", "t", "s">>, 25),
      KW("kitchen_lights", <<"c", "o", "o", "k", "i", "n", "g", " ", "a", "r", "e", "a", " ", "l", "i", "g", "h", "t">>, 20),
      KW("bathroom_lights", <<"b", "a", "t", "h", "r", "o", "o", "m", " ", "l", "i", "g", "h", "t">>, 25),
      KW("bathroom_lights", <<"b", "a", "t", "h", "r", "o", "o", "m", " ", "l", "i", "g", "h", "t", "s">>, 25),
      KW("bathroom_lights", <<"t", "o", "i", "l", "e", "t", " ", "l", "i", "g", "h", "t">>, 20),
      KW("bathroom_lights", <<"w", "a", "s", "h", "r", "o", "o", "m", " ", "l", "i", "g", "h", "t">>, 20),
      KW("living_room_lights", <<"t", "u", "r", "n", " ", "o", "n", " ", "l", "i", "g", "h", "t", "s">>, 10),
      KW("bedroom_lights", <<"t", "u", "r", "n", " ", "o", "n", " ", "l", "i", "g", "h", "t", "s">>, 10),
      KW("kitchen_lights", <<"t", "u", "r", "n", " ", "o", "n", " ", "l", "i", "g", "h", "t", "s">>, 10),
      KW("bathroom_lights", <<"t", "u", "r", "n", " ", "o", "n", " ", "l", "i", "g", "h", "t", "s">>, 10)>>

\* update_multiroom_arduino: room_actions_data in insertion order
MultiroomActions ==
    <<IA("living_room_lights", "control_arduino_room_light", "low"),
      IA("living_room_lights", "control_arduino_room_light", "low"),
      IA("bedroom_lights", "control_arduino_room_light", "low"),
      IA("bedroom_lights", "control_arduino_room_light", "low"),
      IA("kitchen_lights", "control_arduino_room_light", "low"),
      IA("kitchen_lights", "control_arduino_room_light", "low"),
      IA("bathroom_lights", "control_arduino_room_light", "low"),
      IA("bathroom_lights", "control_arduino_room_light", "low")>>

\* the rows of intent_keywords and intent_actions in the database: the seed
\* of init_intent_actions_database, and after update_multiroom_arduino has
\* run its rows behind them
KeywordRows == IF multiroom THEN IntentKeywords \o MultiroomKeywords ELSE IntentKeywords

ActionRows == IF multiroom THEN IntentActions \o MultiroomActions ELSE IntentActions

ThresholdOf(intent) ==
    IF intent \in DOMAIN IntentThreshold THEN IntentThreshold[intent] ELSE MultiroomThreshold[intent]

DV(name, category, room, mqtt_topic) ==
    [name |-> name, category |-> category, room |-> room, mqtt_topic |-> mqtt_topic]

\* devices_data; a device's id is its position (AUTOINCREMENT); all rows are active
Devices ==
    <<DV("Living Room Lights", "lighting", "living_room", "home/living_room/lights"),
      DV("Living Room TV", "entertainment", "living_room", "home/living_room/tv"),
      DV("Living Room AC", "climate", "living_room", "home/living_room/ac"),
      DV("Bedroom Lights", "lighting", "bedroom", "home/bedroom/lights"),
      DV("Bedroom Fan", "climate", "bedroom", "home/bedroom/fan"),
      DV("Kitchen Lights", "lighting", "kitchen", "home/kitchen/lights"),
      DV("Kitchen Exhaust", "ventilation", "kitchen", "home/kitchen/exhaust"),
      DV("Main Thermostat", "climate", "general", "home/thermostat"),
      DV("Security System", "security", "general", "home/security"),
      DV("Front Door Lock", "security", "general", "home/door/front")>>

DA(device_id, action_name, mqtt_payload) ==
    [device_id |-> device_id, action_name |-> action_name, mqtt_payload |-> mqtt_payload]

\* actions_data of the device catalog in insertion order
DeviceActions ==
    <<DA(1, <<"t", "u", "r", "n", "_", "o", "n">>, "ON"),
      DA(1, <<"t", "u", "r", "n", "_", "o", "f", "f">>, "OFF"),
      DA(1, <<"d", "i", "m">>, "30"),
      DA(1, <<"b", "r", "i", "g", "h", "t", "e", "n">>, "80"),
      DA(4, <<"t", "u", "r", "n", "_", "o", "n">>, "ON"),
      DA(4, <<"t", "u", "r", "n", "_", "o", "f", "f">>, "OFF"),
      DA(6, <<"t", "u", "r", "n", "_", "o", "n">>, "ON"),
      DA(6, <<"t", "u", "r", "n", "_", "o", "f", "f">>, "OFF"),
      DA(8, <<"s", "e", "t", "_", "t", "e", "m", "p", "e", "r", "a", "t", "u", "r", "e">>, "22"),
      DA(8, <<"i", "n", "c", "r", "e", "a", "s", "e", "_", "t", "e", "m", "p">>, "+2"),
      DA(8, <<"d", "e", "c", "r", "e", "a", "s", "e", "_", "t", "e", "m", "p">>, "-2"),
      DA(3, <<"t", "u", "r", "n", "_", "o", "n">>, "ON"),
      DA(3, <<"t", "u", "r", "n", "_", "o", "f", "f">>, "OFF"),
      DA(3, <<"s", "e", "t", "_", "c", "o", "o", "l">>, "COOL"),
      DA(5, <<"t", "u", "r", "n", "_", "o", "n">>, "ON"),
      DA(5, <<"t", "u", "r", "n", "_", "o", "f", "f">>, "OFF"),
      DA(5, <<"s", "e", "t", "_", "s", "p", "e", "e", "d">>, "MEDIUM"),
      DA(2, <<"t", "u", "r", "n", "_", "o", "n">>, "ON"),
      DA(2, <<"t", "u", "r", "n", "_", "o", "f", "f">>, "OFF"),
      DA(2, <<"v", "o", "l", "u", "m", "e", "_", "u", "p">>, "+5"),
      DA(2, <<"v", "o", "l", "u", "m", "e", "_", "d", "o", "w", "n">>, "-5"),
      DA(9, <<"a", "r", "m">>, "ARM"),
      DA(9, <<"d", "i", "s", "a", "r", "m">>, "DISARM"),
      DA(10, <<"l", "o", "c", "k">>, "LOCK"),
      DA(10, <<"u", "n", "l", "o", "c", "k">>, "UNLOCK"),
      DA(7, <<"t", "u", "r", "n", "_", "o", "n">>, "ON"),
      DA(7, <<"t", "u", "r", "n", "_", "o", "f", "f">>, "OFF")>>

DK(device_id, keyword) == [device_id |-> device_id, keyword |-> keyword]

\* keywords_data of the device catalog in insertion order
DeviceKeywords ==
    <<DK(1, <<"l", "i", "v", "i", "n", "g", " ", "r", "o", "o", "m", " ", "l", "i", "g", "h", "t", "s">>),
      DK(1, <<"l", "i", "v", "i", "n", "g", " ", "r", "o", "o", "m", " ", "l", "i", "g", "h", "t">>),
      DK(1, <<"l", "o", "u", "n", "g", "e", " ", "l", "i", "g", "h", "t", "s">>),
      DK(4, <<"b", "e", "d", "r", "o", "o", "m", " ", "l", "i", "g", "h", "t", "s">>),
      DK(4, <<"b", "e", "d", "r", "o", "o", "m", " ", "l", "i", "g", "h", "t">>),
      DK(6, <<"k", "i", "t", "c", "h", "e", "n", " ", "l", "i", "g", "h", "t", "s">>),
      DK(6, <<"k", "i", "t", "c", "h", "e", "n", " ", "l", "i", "g", "h", "t">>),
      DK(1, <<"l", "i", "g", "h", "t", "s">>),
      DK(1, <<"l", "i", "g", "h", "t">>),
      DK(1, <<"l", "a", "m", "p">>),
      DK(8, <<"t", "e", "m", "p", "e", "r", "a", "t", "u", "r", "e">>),
      DK(8, <<"t", "h", "e", "r", "m", "o", "s", "t", "a", "t">>),
      DK(8, <<"h", "e", "a", "t", "i", "n", "g">>),
      DK(8, <<"c", "o", "o", "l", "i", "n", "g">>),
      DK(3, <<"a", "i", "r", " ", "c", "o", "n", "d", "i", "t", "i", "o", "n", "e", "r">>),
      DK(3, <<"a", "c">>),
      DK(3, <<"a", "i", "r", " ", "c", "o", "n">>),
      DK(5, <<"f", "a", "n">>),
      DK(5, <<"b", "e", "d", "r", "o", "o", "m", " ", "f", "a", "n">>),
      DK(2, <<"t", "v">>),
      DK(2, <<"t", "e", "l", "e", "v", "i", "s", "i", "o", "n">>),
      DK(2, <<"l", "i", "v", "i", "n", "g", " ", "r", "o", "o", "m", " ", "t", "v">>),
      DK(9, <<"s", "e", "c", "u", "r", "i", "t", "y">>),
      DK(9, <<"a", "l", "a", "r", "m">>),
      DK(9, <<"s", "e", "c", "u", "r", "i", "t", "y", " ", "s", "y", "s", "t", "e", "m">>),
      DK(10, <<"d", "o", "o", "r">>),
      DK(10, <<"f", "r", "o", "n", "t", " ", "d", "o", "o", "r">>),
      DK(10, <<"d", "o", "o", "r", " ", "l", "o", "c", "k">>),
      DK(7, <<"e", "x", "h", "a", "u", "s", "t">>),
      DK(7, <<"k", "i", "t", "c", "h", "e", "n", " ", "f", "a", "n">>),
      DK(7, <<"e", "x", "h", "a", "u", "s", "t", " ", "f", "a", "n">>)>>

\* action_keywords of find_best_action: the action names that have synonyms
SynonymNames ==
    {<<"t", "u", "r", "n", "_", "o", "n">>,
     <<"t", "u", "r", "n", "_", "o", "f", "f">>,
     <<"d", "i", "m">>,
     <<"b", "r", "i", "g", "h", "t", "e", "n">>,
     <<"s", "e", "t", "_", "t", "e", "m", "p", "e", "r", "a", "t", "u", "r", "e">>,
     <<"v", "o", "l", "u", "m", "e", "_", "u", "p">>,
     <<"v", "o", "l", "u", "m", "e", "_", "d", "o", "w", "n">>,
     <<"l", "o", "c", "k">>,
     <<"u", "n", "l", "o", "c", "k">>,
     <<"a", "r", "m">>,
     <<"d", "i", "s", "a", "r", "m">>}

ActionKeywords(name) ==
    CASE name = <<"t", "u", "r", "n", "_", "o", "n">> ->
           {<<"o", "n">>, <<"t", "u", "r", "n", " ", "o", "n">>, <<"s", "w", "i", "t", "c", "h", " ", "o", "n">>, <<"s", "t", "a", "r", "t">>, <<"a", "c", "t", "i", "v", "a", "t", "e">>}
      [] name = <<"t", "u", "r", "n", "_", "o", "f", "f">> ->
           {<<"o", "f", "f">>, <<"t", "u", "r", "n", " ", "o", "f", "f">>, <<"s", "w", "i", "t", "c", "h", " ", "o", "f", "f">>, <<"s", "t", "o", "p">>, <<"d", "e", "a", "c", "t", "i", "v", "a", "t", "e">>}
      [] name = <<"d", "i", "m">> ->
           {<<"d", "i", "m">>, <<"l", "o", "w", "e", "r">>, <<"r", "e", "d", "u", "c", "e", " ", "b", "r", "i", "g", "h", "t", "n", "e", "s", "s">>}
      [] name = <<"b", "r", "i", "g", "h", "t", "e", "n">> ->
           {<<"b", "r", "i", "g", "h", "t">>, <<"b", "r", "i", "g", "h", "t", "e", "n">>, <<"i", "n", "c", "r", "e", "a", "s", "e", " ", "b", "r", "i", "g", "h", "t", "n", "e", "s", "s">>}
      [] name = <<"s", "e", "t", "_", "t", "e", "m", "p", "e", "r", "a", "t", "u", "r", "e">> ->
           {<<"t", "e", "m", "p", "e", "r", "a", "t", "u", "r", "e">>, <<"t", "e", "m", "p">>, <<"d", "e", "g", "r", "e", "e", "s">>}
      [] name = <<"v", "o", "l", "u", "m", "e", "_", "u", "p">> ->
           {<<"v", "o", "l", "u", "m", "e", " ", "u", "p">>, <<"l", "o", "u", "d", "e", "r">>, <<"i", "n", "c", "r", "e", "a", "s", "e", " ", "v", "o", "l", "u", "m", "e">>}
      [] name = <<"v", "o", "l", "u", "m", "e", "_", "d", "o", "w", "n">> ->
           {<<"v", "o", "l", "u", "m", "e", " ", "d", "o", "w", "n">>, <<"q", "u", "i", "e", "t", "e", "r">>, <<"d", "e", "c", "r", "e", "a", "s", "e", " ", "v", "o", "l", "u", "m", "e">>}
      [] name = <<"l", "o", "c", "k">> ->
           {<<"l", "o", "c", "k">>}
      [] name = <<"u", "n", "l", "o", "c", "k">> ->
           {<<"u", "n", "l", "o", "c", "k">>}
      [] name = <<"a", "r", "m">> ->
           {<<"a", "r", "m">>, <<"a", "c", "t", "i", "v", "a", "t", "e", " ", "s", "e", "c", "u", "r", "i", "t", "y">>}
      [] name = <<"d", "i", "s", "a", "r", "m">> ->
           {<<"d", "i", "s", "a", "r", "m">>, <<"d", "e", "a", "c", "t", "i", "v", "a", "t", "e", " ", "s", "e", "c", "u", "r", "i", "t", "y">>}

\* the dark-room phrases tested at line 454
DarkKeywords ==
    {<<"r", "o", "o", "m", " ", "i", "s", " ", "d", "a", "r", "k">>,
     <<"d", "a", "r", "k", " ", "i", "n", " ", "h", "e", "r", "e">>,
     <<"t", "o", "o", " ", "d", "a", "r", "k">>,
     <<"c", "a", "n", "'", "t", " ", "s", "e", "e">>,
     <<"n", "e", "e", "d", " ", "l", "i", "g", "h", "t">>,
     <<"i", "t", "'", "s", " ", "d", "a", "r", "k">>,
     <<"g", "e", "t", "t", "i", "n", "g", " ", "d", "a", "r", "k">>}

\* the temperature phrases tested at line 458
TempKeywords ==
    {<<"c", "o", "l", "d">>,
     <<"w", "a", "r", "m">>,
     <<"h", "o", "t">>,
     <<"t", "e", "m", "p", "e", "r", "a", "t", "u", "r", "e">>,
     <<"t", "h", "e", "r", "m", "o", "s", "t", "a", "t">>,
     <<"h", "e", "a", "t", "i", "n", "g">>,
     <<"c", "o", "o", "l", "i", "n", "g">>,
     <<"a", "d", "j", "u", "s", "t", " ", "t", "e", "m", "p">>,
     <<"t", "o", "o", " ", "c", "o", "l", "d">>,
     <<"t", "o", "o", " ", "w", "a", "r", "m">>,
     <<"s", "u", "g", "g", "e", "s", "t", " ", "t", "e", "m", "p">>,
     <<"h", "o", "u", "s", "e", " ", "i", "s", " ", "c", "o", "l", "d">>,
     <<"h", "o", "u", "s", "e", " ", "f", "e", "e", "l", "s", " ", "c", "o", "l", "d">>}

\* the emergency words tested at line 518
EmergencyKeywords ==
    {<<"h", "e", "l", "p">>,
     <<"e", "m", "e", "r", "g", "e", "n", "c", "y">>,
     <<"f", "a", "l", "l">>,
     <<"f", "e", "l", "l">>,
     <<"h", "u", "r", "t">>,
     <<"p", "a", "i", "n">>,
     <<"s", "i", "c", "k">>,
     <<"c", "a", "l", "l", " ", "9", "1", "1">>,
     <<"a", "m", "b", "u", "l", "a", "n", "c", "e">>,
     <<"c", "h", "e", "s", "t", " ", "p", "a", "i", "n">>,
     <<"c", "a", "n", "n", "o", "t", " ", "b", "r", "e", "a", "t", "h", "e">>,
     <<"d", "i", "z", "z", "y">>}

\* the mood words tested at line 529
MoodKeywords ==
    {<<"l", "o", "n", "e", "l", "y">>,
     <<"s", "a", "d">>,
     <<"d", "e", "p", "r", "e", "s", "s", "e", "d">>,
     <<"w", "o", "r", "r", "i", "e", "d">>,
     <<"s", "c", "a", "r", "e", "d">>,
     <<"a", "n", "x", "i", "o", "u", "s">>,
     <<"u", "p", "s", "e", "t">>,
     <<"c", "o", "n", "f", "u", "s", "e", "d">>}

\* phrases requests are put together from
Words ==
    {<<"t", "u", "r", "n", " ", "o", "n">>,
     <<"U", "n", "l", "o", "c", "k">>,
     <<"t", "h", "e", " ", "t", "v">>,
     <<"d", "o", "o", "r">>,
     <<"l", "i", "g", "h", "t", "s">>,
     <<"h", "e", "l", "p">>,
     <<"e", "m", "e", "r", "g", "e", "n", "c", "y">>,
     <<"h", "e", "l", "l", "o">>,
     <<"c", "a", "l", "l">>,
     <<"s", "a", "r", "a", "h">>}

\* ---- IntentDatabaseService.detect_intent_from_keywords ----
\* rows of active intents whose keyword occurs in the lowered text
MatchedRows(text) ==
    LET message_lower == Lower(text)
    IN  {i \in 1..Len(KeywordRows) :
            /\ KeywordRows[i].intent \notin inactive
            /\ Contains(message_lower, Lower(KeywordRows[i].keyword))}

RECURSIVE SumWeights(_)
SumWeights(rows) ==
    IF rows = {} THEN 0
    ELSE LET i == CHOOSE x \in rows : TRUE
         IN  KeywordRows[i].weight + SumWeights(rows \ {i})

\* intent_scores: intent -> accumulated weight of its matched keywords
IntentScores(text) ==
    LET rows == MatchedRows(text)
    IN  [n \in {KeywordRows[i].intent : i \in rows} |->
            SumWeights({i \in rows : KeywordRows[i].intent = n})]

\* the largest weight among the matched rows of intent n
TopWeight(text, n) ==
    LET ws == {KeywordRows[i].weight : i \in {j \in MatchedRows(text) : KeywordRows[j].intent = n}}
    IN  CHOOSE w \in ws : \A v \in ws : v <= w

\* what max(intent_scores.keys(), key=intent_scores.get) can return over all
\* orders the query may give rows of equal weight: max keeps the first key
\* among equal scores, keys are in the order of their first matched row and
\* rows come by weight descending
BestIntents(text) ==
    LET sc == IntentScores(text)
        top == {n \in DOMAIN sc : \A m \in DOMAIN sc : sc[m] <= sc[n]}
    IN  {n \in top : \A m \in top : TopWeight(text, m) <= TopWeight(text, n)}

BestIntentChoices(text) == IF BestIntents(text) = {} THEN {"None"} ELSE BestIntents(text)

\* the orders an SQLite build returns rows of equal weight in: the sort is
\* stable over the scan of intent_keywords, which runs by rowid, or by rowid
\* backwards under PRAGMA reverse_unordered_selects; fixed for a database
TieOrders == {"rowid", "reverse"}

\* row i stands before row j in the result of ORDER BY ik.weight DESC
RowBefore(i, j) ==
    \/ KeywordRows[i].weight > KeywordRows[j].weight
    \/ /\ KeywordRows[i].weight = KeywordRows[j].weight
       /\ IF tie_order = "rowid" THEN i < j ELSE i > j

\* results = cursor.fetchall(): the keyword rows of active intents, sorted
QueryResults ==
    SortSeq(SelectSeq([i \in 1..Len(KeywordRows) |-> i],
                      LAMBDA i : KeywordRows[i].intent \notin inactive),
            RowBefore)

\* the keys of intent_scores in insertion order after the first k rows
RECURSIVE ScoreKeys(_, _, _)
ScoreKeys(message_lower, results, k) ==
    IF k = 0 THEN <<>>
    ELSE LET before == ScoreKeys(message_lower, results, k - 1)
             row == KeywordRows[results[k]]
         IN  IF /\ Contains(message_lower, Lower(row.keyword))
                /\ \A x \in 1..Len(before) : before[x] # row.intent
             THEN Append(before, row.intent)
             ELSE before

\* a max that keeps the last key among equal scores
PyMaxLast(keys, score) ==
    keys[CHOOSE x \in 1..Len(keys) :
            /\ \A y \in 1..Len(keys) : score[keys[y]] <= score[keys[x]]
            /\ \A y \in (x + 1)..Len(keys) : score[keys[y]] < score[keys[x]]]

\* max(keys, key=score.get): the first key whose score no key exceeds
PyMax(keys, score) ==
    keys[CHOOSE x \in 1..Len(keys) :
            /\ \A y \in 1..Len(keys) : score[keys[y]] <= score[keys[x]]
            /\ \A y \in 1..(x - 1) : score[keys[y]] < score[keys[x]]]

\* best_intent of detect_intent_from_keywords ("None" before line 72 returns)
BestIntent(text) ==
    LET results == QueryResults
        keys == ScoreKeys(Lower(text), results, Len(results))
    IN  IF keys = <<>> THEN "None" ELSE PyMax(keys, IntentScores(text))

\* default of the confidence_threshold parameter, in hundredths
DefaultConfidenceThreshold == 70

\* min(score / 5.0, 1.0) in hundredths, for a score in tenths
Confidence(score) == Min(score * 2, 100)

NoIntent == [intent |-> "None", confidence |-> 0]
NotCalled == [intent |-> "not_called", confidence |-> 0]

\* the classifier comparing the confidence with its argument only
DetectIntentIgnoringOwnThreshold(text, best, confidence_threshold) ==
    LET sc == IntentScores(text)
    IN  IF DOMAIN sc = {} THEN NoIntent
        ELSE IF Confidence(sc[best]) < confidence_threshold
        THEN NoIntent
        ELSE [intent |-> best, confidence |-> Confidence(sc[best])]

\* detect_intent_from_keywords(message, confidence_threshold), best being
\* the key max() picked
DetectIntent(text, best, confidence_threshold) ==
    LET sc == IntentScores(text)
    IN  IF DOMAIN sc = {} THEN NoIntent
        ELSE IF Confidence(sc[best]) < Max(confidence_threshold, ThresholdOf(best))
        THEN NoIntent
        ELSE [intent |-> best, confidence |-> Confidence(sc[best])]

\* the call with the default confidence_threshold, as ai_service makes it
DetectIntentFromKeywords(text, best) == DetectIntent(text, best, DefaultConfidenceThreshold)

\* ---- IntentDatabaseService.get_intent_actions ----
GetIntentActions(intent) ==
    SelectSeq(ActionRows, LAMBDA a : a.intent = intent)

\* ---- DeviceService ----
\* rows of device_keywords whose keyword occurs in the text (LIKE is
\* case-insensitive on both sides)
MatchedDeviceRows(text) ==
    LET text_lower == Lower(text)
    IN  {i \in 1..Len(DeviceKeywords) : Contains(text_lower, Lower(DeviceKeywords[i].keyword))}

\* the devices find_device_by_keyword can return first: the owners of a
\* longest matched keyword (ORDER BY LENGTH(keyword) DESC leaves the order
\* of equally long keywords open)
FirstMatchedDevices(text) ==
    LET rows == MatchedDeviceRows(text)
    IN  {DeviceKeywords[i].device_id :
            i \in {j \in rows : \A k \in rows : Len(DeviceKeywords[k].keyword) <= Len(DeviceKeywords[j].keyword)}}

FirstDeviceChoices(text) ==
    IF FirstMatchedDevices(text) = {} THEN {0} ELSE FirstMatchedDevices(text)

\* the orders in which the query can return the matched rows: by
\* LENGTH(keyword) DESC, rows of equal length in any order
RECURSIVE RowOrders(_)
RowOrders(rows) ==
    IF rows = {} THEN {<<>>}
    ELSE LET longest == {r \in rows : \A q \in rows :
                            Len(DeviceKeywords[q].keyword) <= Len(DeviceKeywords[r].keyword)}
         IN  UNION {{<<r>> \o t : t \in RowOrders(rows \ {r})} : r \in longest}

\* the same rows by LENGTH(keyword) ASC
RECURSIVE RowOrdersAscending(_)
RowOrdersAscending(rows) ==
    IF rows = {} THEN {<<>>}
    ELSE LET shortest == {r \in rows : \A q \in rows :
                            Len(DeviceKeywords[r].keyword) <= Len(DeviceKeywords[q].keyword)}
         IN  UNION {{<<r>> \o t : t \in RowOrdersAscending(rows \ {r})} : r \in shortest}

\* the loop over the rows: a device is appended with the keyword of its
\* first row, later rows of a seen device are skipped
RECURSIVE SeenDevices(_, _)
SeenDevices(order, seen_devices) ==
    IF order = <<>> THEN <<>>
    ELSE LET row == DeviceKeywords[Head(order)]
         IN  IF row.device_id \in seen_devices
             THEN SeenDevices(Tail(order), seen_devices)
             ELSE <<[id |-> row.device_id, matched_keyword |-> row.keyword]>>
                    \o SeenDevices(Tail(order), seen_devices \cup {row.device_id})

\* find_device_by_keyword over rows sorted shortest keyword first
FindDeviceByKeywordShortestFirst(text) ==
    {SeenDevices(order, {}) : order \in RowOrdersAscending(MatchedDeviceRows(text))}

\* find_device_by_keyword: the lists it can return for text
FindDeviceByKeyword(text) ==
    {SeenDevices(order, {}) : order \in RowOrders(MatchedDeviceRows(text))}

RECURSIVE SortByName(_)
SortByName(rows) ==
    IF rows = {} THEN <<>>
    ELSE LET m == CHOOSE i \in rows : \A j \in rows \ {i} :
                    StrLt(DeviceActions[i].action_name, DeviceActions[j].action_name)
         IN  <<DeviceActions[m]>> \o SortByName(rows \ {m})

\* get_device_actions: the device's actions ORDER BY action_name
GetDeviceActions(device_id) ==
    SortByName({i \in 1..Len(DeviceActions) : DeviceActions[i].device_id = device_id})

NoAction == DA(0, <<>>, "None")

MinOf(S) == CHOOSE x \in S : \A y \in S : x <= y

\* find_best_action giving up when neither a name nor a synonym occurs
FindBestActionNoDefault(device_id, action_text) ==
    LET actions == GetDeviceActions(device_id)
        tl == Lower(action_text)
        direct == {i \in 1..Len(actions) : Contains(tl, Lower(actions[i].action_name))}
        syn == {i \in 1..Len(actions) :
                    /\ actions[i].action_name \in SynonymNames
                    /\ AnyIn(ActionKeywords(actions[i].action_name), tl)}
    IN  IF direct # {} THEN actions[MinOf(direct)]
        ELSE IF syn # {} THEN actions[MinOf(syn)]
        ELSE NoAction

\* find_best_action: action name in the text, else a synonym in the text,
\* else the first action
FindBestAction(device_id, action_text) ==
    LET actions == GetDeviceActions(device_id)
        tl == Lower(action_text)
        direct == {i \in 1..Len(actions) : Contains(tl, Lower(actions[i].action_name))}
        syn == {i \in 1..Len(actions) :
                    /\ actions[i].action_name \in SynonymNames
                    /\ AnyIn(ActionKeywords(actions[i].action_name), tl)}
    IN  IF direct # {} THEN actions[MinOf(direct)]
        ELSE IF syn # {} THEN actions[MinOf(syn)]
        ELSE IF actions # <<>> THEN actions[1]
        ELSE NoAction

\* ---- AIService._process_elder_communication ----
\* the names the function has bound when control reaches line 454, with
\* the values the branches below read
Frame(text, info, chat) ==
    [self |-> "AIService", message |-> text, elder_info |-> info, input_type |-> "text",
     elder_name |-> "Elder", elder_age |-> "elderly person",
     default_family_contact |-> "Family Member",
     conversation_prompt |-> "prompt", analysis_prompt |-> "prompt",
     conversation_response |-> chat, clean_response |-> chat,
     detected_intent |-> "None", analysis_data |-> "{}"]

\* names of the module's global scope: its imports and its class
ModuleGlobals ==
    {"ollama", "json", "base64", "asyncio", "Dict", "List", "Any", "Optional",
     "DeviceService", "MQTTService", "IntentDatabaseService", "AIService"}

\* evaluating a name that is neither bound in the frame nor global raises
Resolves(name, frame) == name \in (DOMAIN frame) \cup ModuleGlobals

\* analysis_data, reduced to the fields the result is built from
AD(intent, action_needed, device, device_action, risk_level, confidence) ==
    [intent |-> intent, action_needed |-> action_needed, device |-> device,
     device_action |-> device_action, risk_level |-> risk_level, confidence |-> confidence]

NoNluResult ==
    [response |-> "None", intent_detected |-> "None", suggested_action |-> "None",
     device |-> "None", device_action |-> <<>>, risk_level |-> "None",
     is_emergency |-> FALSE, success |-> FALSE, error |-> "None", confidence_score |-> 0]

\* lines 549-576: the result built from analysis_data
AnalysisResult(ad, chat) ==
    [response |-> chat,
     intent_detected |-> ad.intent,
     suggested_action |-> IF ad.action_needed \notin {"None", "null"} THEN ad.action_needed ELSE "None",
     device |-> ad.device,
     device_action |-> ad.device_action,
     risk_level |-> ad.risk_level,
     is_emergency |-> (ad.risk_level = "high" \/ ad.intent = "emergency"),
     success |-> TRUE,
     error |-> "None",
     confidence_score |-> ad.confidence]

\* lines 578-599: the result of the except branch
Fallback(e) ==
    [response |-> "fallback", intent_detected |-> "emergency",
     suggested_action |-> "call_emergency", device |-> "None", device_action |-> <<>>,
     risk_level |-> "medium", is_emergency |-> TRUE, success |-> FALSE, error |-> e,
     confidence_score |-> 100]

\* the intent branch taking the intent's last action instead of its first
IntentBranchLastAction(intent, confidence) ==
    LET actions == GetIntentActions(intent)
    IN  IF actions = <<>> THEN AD("None", "None", "None", <<>>, "low", 80)
        ELSE AD(intent, actions[Len(actions)].function_name, "None", <<>>,
                actions[Len(actions)].risk_level, confidence)

\* lines 422-452: the first action of the detected intent; without one
\* analysis_data stays empty and line 565 reports confidence 0.8
IntentBranch(intent, confidence) ==
    LET actions == GetIntentActions(intent)
    IN  IF actions = <<>> THEN AD("None", "None", "None", <<>>, "low", 80)
        ELSE AD(intent, actions[1].function_name, "None", <<>>, actions[1].risk_level, confidence)

\* lines 462-505: the Device Matcher branch for first match dev
DeviceBranch(text, dev) ==
    LET best_action == FindBestAction(dev, text)
    IN  AD("smart_home", "control_smart_device", Devices[dev].name, best_action.action_name, "low",
           IF best_action = NoAction THEN 70 ELSE 90)

\* _handle_dark_room and _enhanced_temperature_reasoning, by their results
HandleDarkRoom(chat) ==
    [NoNluResult EXCEPT !.response = chat, !.intent_detected = "smart_home_lighting",
                        !.suggested_action = "control_arduino_room_light",
                        !.risk_level = "low", !.success = TRUE, !.confidence_score = 95]

EnhancedTemperatureReasoning(chat) ==
    [NoNluResult EXCEPT !.response = chat, !.intent_detected = "smart_home_with_reasoning",
                        !.suggested_action = "control_thermostat",
                        !.risk_level = "low", !.success = TRUE, !.confidence_score = 95]

\* lines 454-546: the branches that test message_lower
KeywordChain(text, message_lower, dev, chat) ==
    IF AnyIn(DarkKeywords, message_lower) THEN HandleDarkRoom(chat)
    ELSE IF AnyIn(TempKeywords, message_lower) THEN EnhancedTemperatureReasoning(chat)
    ELSE IF dev # 0 THEN AnalysisResult(DeviceBranch(text, dev), chat)
    ELSE IF AnyIn(EmergencyKeywords, message_lower)
    THEN AnalysisResult(AD("emergency", "call_emergency", "None", <<>>, "high", 95), chat)
    ELSE IF AnyIn(MoodKeywords, message_lower)
    THEN AnalysisResult(AD("loneliness", "contact_family", "None", <<>>, "medium", 80), chat)
    ELSE AnalysisResult(AD("conversation", "None", "None", <<>>, "low", 70), chat)

\* the texts find_device_by_keyword is called with on that path
KeywordChainMatcherCalls(text, message_lower) ==
    IF AnyIn(DarkKeywords, message_lower) \/ AnyIn(TempKeywords, message_lower)
    THEN <<>> ELSE <<text>>

\* what elder_info can be: absent, or a dict
ElderInfos == {PyNone, [t |-> "dict", v |-> [name |-> "Mary"]]}

\* replies of chat_completion: the model's text, or its apology on an error
ChatReplies == {"reply", "apology"}

RECURSIVE WordSeqs(_)
WordSeqs(n) ==
    IF n = 0 THEN {<<>>}
    ELSE {<<w>> \o s : w \in Words, s \in WordSeqs(n - 1)}

RECURSIVE Join(_)
Join(ws) ==
    IF Len(ws) = 1 THEN ws[1] ELSE ws[1] \o <<" ">> \o Join(Tail(ws))

\* the requests of the end-to-end examples
TurnOffBedroomLights ==
    <<"T", "u", "r", "n", " ", "o", "f", "f", " ", "b", "e", "d", "r", "o", "o", "m", " ", "l", "i", "g", "h", "t", "s">>

EmergencyHelpFell ==
    <<"I", " ", "n", "e", "e", "d", " ", "e", "m", "e", "r", "g", "e", "n", "c", "y", " ", "h", "e", "l", "p", ",", " ", "I", " ", "f", "e", "l", "l">>

\* requests of one up to MaxWords phrases, and the two examples
Messages ==
    {Join(ws) : ws \in UNION {WordSeqs(n) : n \in 1..MaxWords}}
        \cup {TurnOffBedroomLights, EmergencyHelpFell}

\* texts the service methods are called with: the phrases, and texts that
\* reach the cases of the classifier, the device matcher and the parameter
\* synthesis
ServiceTexts ==
    Words \cup {TurnOffBedroomLights, EmergencyHelpFell} \cup
    {<<"h", "e", "l", "p", " ", "f", "a", "l", "l", " ", "t", "e", "m", "p", "e", "r", "a", "t", "u", "r", "e", " ", "t", "h", "e", "r", "m", "o", "s", "t", "a", "t">>,
     <<"c", "a", "l", "l", " ", "s", "a", "r", "a", "h", " ", "h", "e", "l", "p", " ", "f", "a", "l", "l">>,
     <<"p", "l", "e", "a", "s", "e", " ", "s", "w", "i", "t", "c", "h", " ", "o", "n", " ", "t", "h", "e", " ", "l", "a", "m", "p">>,
     <<"t", "h", "e", "r", "m", "o", "s", "t", "a", "t">>,
     <<"U", "n", "l", "o", "c", "k", " ", "d", "o", "o", "r">>,
     <<"d", "i", "s", "a", "r", "m", " ", "t", "h", "e", " ", "a", "l", "a", "r", "m">>,
     <<"t", "u", "r", "n", " ", "i", "t", " ", "o", "n">>,
     <<"t", "u", "r", "n", " ", "o", "n", " ", "t", "h", "e", " ", "l", "e", "d">>,
     <<"b", "a", "t", "h", "r", "o", "o", "m">>,
     <<"t", "u", "r", "n", " ", "o", "f", "f", " ", "t", "h", "e", " ", "b", "a", "t", "h", "r", "o", "o", "m", " ", "l", "i", "g", "h", "t">>,
     <<"s", "e", "t", " ", "i", "t", " ", "t", "o", " ", "2", "5", " ", "d", "e", "g", "r", "e", "e", "s">>,
     <<"b", "e", "d", "r", "o", "o", "m", " ", "f", "a", "n", " ", "l", "i", "g", "h", "t">>,
     <<"d", "i", "m", " ", "t", "h", "e", " ", "l", "i", "v", "i", "n", "g", " ", "r", "o", "o", "m", " ", "l", "i", "g", "h", "t", "s">>,
     <<"l", "a", "m", "p", " ", "b", "y", " ", "t", "h", "e", " ", "d", "o", "o", "r">>,
     <<"h", "e", "a", "t", "i", "n", "g", " ", "o", "r", " ", "c", "o", "o", "l", "i", "n", "g">>,
     <<"h", "e", "l", "p", " ", "1", "2", " ", "a", "n", "d", " ", "7", " ", " ", "d", "e", "g", "r", "e", "e">>}

\* no response yet
NoResponse == [status_code |-> 0, keys |-> {}, ai_response |-> NoNluResult]

NluIdle ==
    /\ message = <<>>
    /\ elder_info = PyNone
    /\ nluPc = "idle"
    /\ detected = NotCalled
    /\ matcherCalls = <<>>
    /\ nluResult = NoNluResult
    /\ response_data = NoResponse
    /\ published = <<>>
    /\ multiroom = FALSE
    /\ svc = "none"
    /\ svcDevice = 0
    /\ svcFunction = "None"
    /\ svcDevices = <<>>
    /\ svcAction = NoAction
    /\ svcParameters = <<>>
    /\ svcThreshold = 0
    /\ svcPc = "idle"

\* WebSocketManager(): no connection, no broadcast running
WsIdle ==
    /\ active_connections = <<>>
    /\ bcPc = "idle"
    /\ bcIndex = 0
    /\ bcBegan = <<>>
    /\ bcAttempted = {}
    /\ bcFailed = {}

\* the MQTTService objects besides the one main.py creates at line 11:
\* chat_routes.py:13 and AIService.__init__ (ai_service.py:15)
PeerInstances == {"chat_routes", "ai_service"}

NoCmd == [component |-> "none", device |-> "none", argument |-> PyNone]

NoOutcome == [status_code |-> 0, success |-> FALSE, error |-> "None"]

\* every MQTTService() starts with the same cache; no command is in hand
CmdIdle ==
    /\ peer_heap = [i \in PeerInstances |-> InitHeap]
    /\ cmdReq = NoCmd
    /\ cmdOutcome = NoOutcome
    /\ cmdSent = <<>>

AppIdle == WsIdle /\ CmdIdle

Init == MqttInit /\ NluIdle /\ AppIdle /\ inactive = {} /\ extra_parameters = <<>> /\ tie_order = "rowid"

\* ------------------------------------------------------------------------
\* Transport client
\* ------------------------------------------------------------------------
\* self.client and self.client.is_connected()
IsConnected == client = "present" /\ connState = "Connected"

\* ------------------------------------------------------------------------
\* Transport client life cycle
\* ------------------------------------------------------------------------
\* the topic set on_connect subscribes to
FixedTopics ==
    {T_elder_voice, T_elder_emergency, T_caregiver_commands, T_dht11,
     T_led_status, T_thermostat_status, T_home_wildcard}

\* on_connect without the wildcard subscription
OnConnectSubscriptionsNoWildcard(rc) == IF rc = 0 THEN FixedTopics \ {T_home_wildcard} ELSE {}

\* the subscriptions on_connect makes for result code rc
OnConnectSubscriptions(rc) == IF rc = 0 THEN FixedTopics ELSE {}

\* initialize(): new client, connect_async, loop_start (application startup)
Initialize ==
    /\ sendPc = "idle"
    /\ ~loopRunning
    /\ client' = "present"
    /\ connState' = "Connecting"
    /\ loopRunning' = TRUE
    /\ subscribed' = {}
    /\ UNCHANGED <<sessions, registryVars, cacheVars, inVars, sendVars, readerVars, nluVars>>

\* the network loop receives CONNACK with result code rc and calls on_connect;
\* a new (clean) session starts without subscriptions
ConnAck(rc) ==
    /\ loopRunning
    /\ inPc = "idle"
    /\ connState \in {"Connecting", "Reconnecting"}
    /\ rc = 0 => sessions < MaxSessions
    /\ connState' = IF rc = 0 THEN "Connected" ELSE connState
    /\ sessions' = IF rc = 0 THEN sessions + 1 ELSE sessions
    /\ subscribed' = OnConnectSubscriptions(rc)
    /\ UNCHANGED <<client, loopRunning, registryVars, cacheVars, inVars, sendVars,
                   readerVars, nluVars>>

\* the connection drops; the loop thread starts reconnecting and the broker
\* forgets the session's subscriptions
ConnectionLost ==
    /\ loopRunning
    /\ inPc = "idle"
    /\ connState = "Connected"
    /\ connState' = "Reconnecting"
    /\ subscribed' = {}
    /\ UNCHANGED <<client, loopRunning, sessions, registryVars, cacheVars, inVars,
                   sendVars, readerVars, nluVars>>

\* the handlers registered for any topic
RegisteredHandlers ==
    UNION {{message_callbacks[t][i] : i \in 1..Len(message_callbacks[t])} : t \in Topics}

\* what disconnect() leaves in self.message_callbacks: it does not touch it
CallbacksAfterDisconnect(cbs) == cbs

\* disconnect(): loop_stop() joins the loop thread, then the client disconnects
Disconnect ==
    /\ sendPc = "idle"
    /\ inPc = "idle"
    /\ IF client = "present"
       THEN /\ loopRunning' = FALSE
            /\ connState' = "Disconnected"
            /\ subscribed' = {}
            /\ message_callbacks' = CallbacksAfterDisconnect(message_callbacks)
            /\ stale' = RegisteredHandlers
       ELSE UNCHANGED <<loopRunning, connState, subscribed, message_callbacks, stale>>
    /\ UNCHANGED <<client, sessions, cacheVars, inVars, sendVars, readerVars, nluVars>>

\* register_callback(topic, callback)
RegisterCallback(topic, h) ==
    /\ sendPc = "idle"
    /\ Len(message_callbacks[topic]) < MaxCallbacks
    /\ message_callbacks' = [message_callbacks EXCEPT ![topic] = Append(@, h)]
    /\ stale' = stale \ {h}
    /\ UNCHANGED <<transportVars, cacheVars, inVars, sendVars, readerVars, nluVars>>

\* ------------------------------------------------------------------------
\* Inbound messages: on_message and _process_arduino_message
\* ------------------------------------------------------------------------
\* a cache write: dict object, key, value; NowStamp stands for the value of
\* datetime.now().isoformat() at the moment the write executes
NowStamp == [t |-> "now", v |-> 0]
W(obj, key, val) == [obj |-> obj, key |-> key, val |-> val]

\* key f"{device}_status" for the devices of the model's status topics
StatusKey(device) ==
    CASE device = "led" -> "led_status"
      [] device = "thermostat" -> "thermostat_status"
      [] OTHER -> "other_status"

\* the sensor payload parses: ',' present, exactly two fields, both floats
SensorWellFormed(m) ==
    /\ Contains(m, <<",">>)
    /\ Len(Split(m, ",")) = 2
    /\ IsFloat(Split(m, ",")[1])
    /\ IsFloat(Split(m, ",")[2])

\* a handler that keeps the humidity of an earlier reading
SensorWritesTemperatureOnly(m) ==
    IF SensorWellFormed(m)
    THEN <<W("S", "temperature", FloatVal(Split(m, ",")[1])),
           W("S", "last_update", NowStamp)>>
    ELSE <<>>

\* a handler that stores the temperature before it parses the humidity
SensorWritesEager(m) ==
    IF SensorWellFormed(m)
    THEN <<W("S", "temperature", FloatVal(Split(m, ",")[1])),
           W("S", "humidity", FloatVal(Split(m, ",")[2])),
           W("S", "last_update", NowStamp)>>
    ELSE IF Contains(m, <<",">>) /\ Len(Split(m, ",")) = 2 /\ IsFloat(Split(m, ",")[1])
    THEN <<W("S", "temperature", FloatVal(Split(m, ",")[1]))>>
    ELSE <<>>

\* writes of the home/dht11 branch: both fields are parsed before any write
SensorWrites(m) ==
    IF SensorWellFormed(m)
    THEN <<W("S", "temperature", FloatVal(Split(m, ",")[1])),
           W("S", "humidity", FloatVal(Split(m, ",")[2])),
           W("S", "last_update", NowStamp)>>
    ELSE <<>>

\* the writes _process_arduino_message makes for (topic, message), in order;
\* an exception inside it is caught by its own except and ends the writes
ProcessArduinoWrites(topic, m) ==
    IF topic = T_dht11 THEN SensorWrites(m)
    ELSE IF topic = T_led_cmd
    THEN IF m \in {P_ON, P_OFF}
         THEN <<W("D", "led", PyStr(m)), W("D", "last_command", NowStamp)>>
         ELSE <<>>
    ELSE IF topic = T_thermostat_set
    THEN IF IsInt(m)
         THEN <<W("D", "thermostat_target", PyInt(NumberVal(m))),
                W("D", "last_command", NowStamp)>>
         ELSE <<>>
    ELSE IF Len(topic) >= 2 /\ topic[1] = "home" /\ topic[Len(topic)] = "status"
    THEN <<W("D", StatusKey(topic[2]), PyStr(m))>>
    ELSE <<>>

\* the heap after one write executed at logical time n
ApplyWrite(h, w, n) ==
    [h EXCEPT ![w.obj] = SetKey(@, w.key, IF w.val = NowStamp THEN IsoTime(n) ELSE w.val)]

NeedsClock(w) == w.val = NowStamp

\* the broker delivers (topic, payload) and on_message starts: decode, then
\* enter _process_arduino_message; a payload that does not decode is caught
\* by on_message's own except and the message is dropped
OnMessage(topic, payload) ==
    /\ loopRunning
    /\ connState = "Connected"
    /\ inPc = "idle"
    /\ \E f \in subscribed : Matches(f, topic)
    /\ inMsg' = [topic |-> topic, payload |-> payload]
    /\ invoked' = <<>>
    /\ cbErrors' = {}
    /\ forwarded' = <<>>
    /\ IF Decodable(payload)
       THEN /\ inPlan' = ProcessArduinoWrites(topic, payload)
            /\ inPc' = "process"
       ELSE /\ inPlan' = <<>>
            /\ inPc' = "idle"
    /\ UNCHANGED <<transportVars, registryVars, cacheVars, sendVars, readerVars, nluVars>>

\* _process_arduino_message executes its next cache write
ProcessWrite ==
    /\ inPc = "process"
    /\ inPlan # <<>>
    /\ NeedsClock(Head(inPlan)) => now < MaxClock
    /\ now' = IF NeedsClock(Head(inPlan)) THEN now + 1 ELSE now
    /\ heap' = ApplyWrite(heap, Head(inPlan), now')
    /\ inPlan' = Tail(inPlan)
    /\ UNCHANGED <<current_state, inPc, inMsg, invoked, cbErrors, forwarded>>
    /\ UNCHANGED <<transportVars, registryVars, sendVars, readerVars, nluVars>>

\* one callback call
Call(h, topic, m) == [h |-> h, topic |-> topic, message |-> m]

\* a callback loop without the inner try/except: the first raise ends it
RECURSIVE FanOutAbortOnRaise(_, _, _, _)
FanOutAbortOnRaise(cbs, R, topic, m) ==
    IF cbs = <<>> THEN <<>>
    ELSE IF Head(cbs) \in R THEN <<Call(Head(cbs), topic, m)>>
    ELSE <<Call(Head(cbs), topic, m)>> \o FanOutAbortOnRaise(Tail(cbs), R, topic, m)

\* the calls on_message makes for (topic, m) when the handlers in R raise:
\* every handler of the topic's list in order, each call in its own try/except
FanOut(cbs, R, topic, m) == [i \in 1..Len(cbs) |-> Call(cbs[i], topic, m)]

\* the callback initialize_websocket_with_mqtt registers
WsHandler == "mqtt_callback"

\* the thread on_message and its callbacks run on: the network loop thread
\* loop_start() creates
DeliveryThread == "paho-mqtt-client"

\* asyncio.get_event_loop(): the loop of the main thread; in a thread that
\* has set no event loop it raises RuntimeError
GetEventLoop(thread) == IF thread = "MainThread" THEN "loop" ELSE "RuntimeError"

\* what mqtt_callback(topic, message) gets sent to the WebSocket clients: it
\* asks for the event loop to schedule broadcast_mqtt_update, which would
\* send the message with get_current_state() to the active connections; the
\* RuntimeError is caught and printed
MqttCallback(topic, m) ==
    IF GetEventLoop(DeliveryThread) = "RuntimeError" THEN <<>>
    ELSE IF active_connections = <<>> THEN <<>>
    ELSE <<[topic |-> topic, message |-> m, current_state |-> heap]>>

RECURSIVE LiveForwards(_)
LiveForwards(calls) ==
    IF calls = <<>> THEN <<>>
    ELSE (IF Head(calls).h = WsHandler
          THEN MqttCallback(Head(calls).topic, Head(calls).message)
          ELSE <<>>) \o LiveForwards(Tail(calls))

\* on_message's callback loop for the message in hand, then return
Callbacks(R) ==
    /\ inPc = "process"
    /\ inPlan = <<>>
    /\ invoked' = FanOut(message_callbacks[inMsg.topic], R, inMsg.topic, inMsg.payload)
    /\ cbErrors' = R \cap {invoked'[i].h : i \in 1..Len(invoked')}
    /\ forwarded' = LiveForwards(invoked')
    /\ inPc' = "idle"
    /\ UNCHANGED <<inMsg, inPlan>>
    /\ UNCHANGED <<transportVars, registryVars, cacheVars, sendVars, readerVars, nluVars>>

\* ------------------------------------------------------------------------
\* publish_message and the /mqtt/send route
\* ------------------------------------------------------------------------
HasWildcard(topic) == \E i \in 1..Len(topic) : topic[i] \in {"+", "#"}

\* a not-connected branch that stores whatever payload the LED topic carries
OfflineWritesUnchecked(topic, m) ==
    IF topic = T_led_cmd
    THEN <<W("D", "led", PyStr(m))>>
    ELSE IF topic = T_thermostat_cmd /\ StartsWith(m, P_SET_TEMP_prefix)
    THEN IF IsFloat(Split(m, ":")[2])
         THEN <<W("D", "thermostat_target", FloatVal(Split(m, ":")[2]))>>
         ELSE <<>>
    ELSE <<>>

\* cache writes of the not-connected branch of publish_message
OfflineWrites(topic, m) ==
    IF topic = T_led_cmd /\ m \in {P_ON, P_OFF}
    THEN <<W("D", "led", PyStr(m))>>
    ELSE IF topic = T_thermostat_cmd /\ StartsWith(m, P_SET_TEMP_prefix)
    THEN IF IsFloat(Split(m, ":")[2])
         THEN <<W("D", "thermostat_target", FloatVal(Split(m, ":")[2]))>>
         ELSE <<>>
    ELSE <<>>

RECURSIVE ApplyWrites(_, _, _)
ApplyWrites(h, ws, n) ==
    IF ws = <<>> THEN h ELSE ApplyWrites(ApplyWrite(h, Head(ws), n), Tail(ws), n)

\* what self.client.publish(topic, message) does: it raises ValueError for a
\* topic with wildcards, else reports the result code of the send
ClientPublish(topic, connected) ==
    IF HasWildcard(topic) THEN "ValueError"
    ELSE IF connected THEN "MQTT_ERR_SUCCESS"
    ELSE "MQTT_ERR_NO_CONN"

\* the value publish_message returns for that outcome
PublishReturn(outcome) ==
    IF outcome = "ValueError" THEN TRUE ELSE outcome = "MQTT_ERR_SUCCESS"

\* send_mqtt_message calls publish_message: the connectivity check and, when
\* not connected, the whole simulated branch
SendBegin(topic, m) ==
    /\ sendPc = "idle"
    /\ sendReq' = [topic |-> topic, payload |-> m]
    /\ sendResult' = NoResult
    /\ IF ~IsConnected
       THEN /\ heap' = ApplyWrites(heap, OfflineWrites(topic, m), now)
            /\ sendPath' = "degraded"
            /\ sendSuccess' = TRUE
            /\ sendPc' = "returned"
       ELSE /\ heap' = heap
            /\ sendPath' = "checked"
            /\ sendSuccess' = FALSE
            /\ sendPc' = "publishing"
    /\ UNCHANGED <<current_state, now>>
    /\ UNCHANGED <<transportVars, registryVars, inVars, readerVars, nluVars>>

\* publish_message, connected branch: self.client.publish and its result
SendClientPublish ==
    /\ sendPc = "publishing"
    /\ LET outcome == ClientPublish(sendReq.topic, IsConnected)
       IN  /\ sendSuccess' = PublishReturn(outcome)
           /\ sendPath' = CASE outcome = "MQTT_ERR_SUCCESS" -> "real"
                            [] outcome = "MQTT_ERR_NO_CONN" -> "no_conn"
                            [] OTHER -> "local_error"
    /\ sendPc' = "returned"
    /\ UNCHANGED <<sendReq, sendResult>>
    /\ UNCHANGED <<transportVars, registryVars, cacheVars, inVars, readerVars, nluVars>>

\* the result send_mqtt_message builds from publish_message's return value;
\* the HTTPException of the failure branch is caught by the route's except
RouteResult(success, connected) ==
    IF success
    THEN [status |-> "ok", simulated |-> ~connected, error |-> FALSE, raised |-> FALSE]
    ELSE [status |-> "handled", simulated |-> TRUE, error |-> TRUE, raised |-> FALSE]

SendRespond ==
    /\ sendPc = "returned"
    /\ sendResult' = RouteResult(sendSuccess, IsConnected)
    /\ sendPc' = "idle"
    /\ UNCHANGED <<sendReq, sendPath, sendSuccess>>
    /\ UNCHANGED <<transportVars, registryVars, cacheVars, inVars, readerVars, nluVars>>

\* ------------------------------------------------------------------------
\* Readers of the state cache
\* ------------------------------------------------------------------------
\* get_current_state(): dict.copy() of the top-level dict, a new dict whose
\* values are the same nested dict objects (references)
GetCurrentStateCopy(cs) == [k \in DOMAIN cs |-> cs[k]]

\* what a reader sees through a snapshot
View(snap, h) ==
    [sensors |-> IF snap.sensors \in DOMAIN h THEN h[snap.sensors] ELSE <<>>,
     devices |-> IF snap.devices \in DOMAIN h THEN h[snap.devices] ELSE <<>>]

\* the value get_current_state() would hand out now
CacheView == View(current_state, heap)

\* a route calls get_current_state() and reads the sensor values
\* (get_arduino_sensors)
GetCurrentState ==
    /\ sendPc = "idle"
    /\ snapshot' = GetCurrentStateCopy(current_state)
    /\ observed' = [temperature |-> heap[snapshot'.sensors].temperature,
                    humidity |-> heap[snapshot'.sensors].humidity]
    /\ UNCHANGED mutations
    /\ UNCHANGED <<transportVars, registryVars, cacheVars, inVars, sendVars, nluVars>>

\* a caller of get_current_state() assigns into the dict it was handed:
\* snapshot[key] = value on the top-level dict
MutateSnapshotTop(key) ==
    /\ snapshot # NoSnapshot
    /\ mutations < MaxMutations
    /\ mutations' = mutations + 1
    /\ snapshot' = [snapshot EXCEPT ![key] = "replaced"]
    /\ UNCHANGED observed
    /\ UNCHANGED <<transportVars, registryVars, cacheVars, inVars, sendVars, nluVars>>

\* snapshot[key][field] = value on a nested dict of the snapshot
MutateSnapshotNested(key, field, val) ==
    /\ snapshot # NoSnapshot
    /\ snapshot[key] \in DOMAIN heap
    /\ mutations < MaxMutations
    /\ mutations' = mutations + 1
    /\ heap' = [heap EXCEPT ![snapshot[key]] = SetKey(@, field, val)]
    /\ UNCHANGED <<current_state, now, snapshot, observed>>
    /\ UNCHANGED <<transportVars, registryVars, inVars, sendVars, nluVars>>

\* the assignments a reader tries on nested dicts
NestedMutations ==
    {<<"devices", "led", PyStr(P_on_lower)>>, <<"sensors", "temperature", PyFloat(0)>>}

\* ------------------------------------------------------------------------
\* Inputs of the model
\* ------------------------------------------------------------------------
Msg(topic, payload) == [topic |-> topic, payload |-> payload]

\* result codes a CONNACK may carry: accepted, refused (not authorised)
ConnackCodes == {0, 5}

\* messages the broker delivers to the inbound handler: sensor readings
\* well-formed and malformed, a command echo, a topic the cache does not track
InboundMsgs ==
    {Msg(T_dht11, P_sensor), Msg(T_dht11, P_25), Msg(T_dht11, P_sensor_3fields),
     Msg(T_dht11, P_sensor_badtemp), Msg(T_dht11, P_sensor_badhum),
     Msg(T_dht11, P_undecodable), Msg(T_dht11, P_sensor_nan),
     Msg(T_led_cmd, P_ON), Msg(T_led_cmd, P_on_lower), Msg(T_elder_voice, P_ON)}

\* echoes of the commands the routes publish and of payloads /mqtt/send let
\* through, and device status reports
EchoMsgs ==
    {Msg(T_led_cmd, P_ON), Msg(T_thermostat_set, P_25), Msg(T_thermostat_set, P_ON),
     Msg(T_led_status, P_ON), Msg(T_led_cmd, P_on_lower), Msg(T_led_status, P_on_lower)}

\* requests to /mqtt/send
SendRequests ==
    {Msg(T_led_cmd, P_ON), Msg(T_led_cmd, P_on_lower),
     Msg(T_thermostat_set, P_25), Msg(T_thermostat_cmd, P_set_temp),
     Msg(T_thermostat_cmd, P_set_temp_bad), Msg(T_bedroom_lights_cmd, P_OFF),
     Msg(T_elder_voice, P_ON), Msg(T_home_wildcard, P_ON)}

\* topics handlers get registered for
CallbackTopics == {T_dht11}

\* ------------------------------------------------------------------------
\* Specifications
\* ------------------------------------------------------------------------
Lifecycle ==
    \/ Initialize
    \/ \E rc \in ConnackCodes : ConnAck(rc)
    \/ ConnectionLost
    \/ Disconnect

\* the transport client, its inbound handler and the callback registry
Next ==
    \/ Lifecycle
    \/ \E t \in CallbackTopics, h \in Handlers : RegisterCallback(t, h)
    \/ \E m \in InboundMsgs : OnMessage(m.topic, m.payload)
    \/ ProcessWrite
    \/ \E R \in SUBSET Handlers : Callbacks(R)

Spec == Init /\ [][Next]_vars

\* request workers publishing through /mqtt/send while the transport
\* connects, drops and echoes commands
NextSend ==
    \/ Lifecycle
    \/ \E r \in SendRequests : SendBegin(r.topic, r.payload)
    \/ SendClientPublish
    \/ SendRespond
    \/ \E m \in EchoMsgs : OnMessage(m.topic, m.payload)
    \/ ProcessWrite
    \/ Callbacks({})

SpecSend == Init /\ [][NextSend]_vars

\* readers of the cache next to its writers
NextReader ==
    \/ Lifecycle
    \/ \E m \in {Msg(T_dht11, P_sensor), Msg(T_led_cmd, P_ON)} : OnMessage(m.topic, m.payload)
    \/ ProcessWrite
    \/ Callbacks({})
    \/ \E r \in {Msg(T_led_cmd, P_OFF), Msg(T_thermostat_cmd, P_set_temp)} : SendBegin(r.topic, r.payload)
    \/ SendClientPublish
    \/ SendRespond
    \/ GetCurrentState

SpecReader == Init /\ [][NextReader]_vars

\* the service together with a reader that writes into its snapshots
NextMutate ==
    \/ NextReader
    \/ \E k \in {"sensors", "devices"} : MutateSnapshotTop(k)
    \/ \E m \in NestedMutations : MutateSnapshotNested(m[1], m[2], m[3])

SpecMutate == Init /\ [][NextMutate]_vars

\* inbound messages on topics the cache does not track, text and bytes that
\* are not UTF-8, next to a sensor reading
PassThroughMsgs ==
    {Msg(T_elder_voice, P_ON), Msg(T_elder_voice, P_undecodable),
     Msg(T_thermostat_cmd, P_set_temp), Msg(T_dht11, P_sensor)}

\* handlers registered for tracked and untracked topics while messages arrive
NextPassThrough ==
    \/ Lifecycle
    \/ \E t \in {T_elder_voice, T_dht11}, h \in Handlers : RegisterCallback(t, h)
    \/ \E m \in PassThroughMsgs : OnMessage(m.topic, m.payload)
    \/ ProcessWrite
    \/ \E R \in SUBSET Handlers : Callbacks(R)

SpecPassThrough == Init /\ [][NextPassThrough]_vars

\* a text request arrives (process_elder_text)
ProcessElderText(text, info) ==
    /\ nluPc = "idle"
    /\ message' = text
    /\ elder_info' = info
    /\ nluPc' = "received"
    /\ nluResult' = NoNluResult
    /\ detected' = NotCalled
    /\ matcherCalls' = <<>>
    /\ response_data' = NoResponse
    /\ published' = <<>>
    /\ UNCHANGED <<catalogVars, serviceVars>>
    /\ UNCHANGED <<transportVars, registryVars, cacheVars, inVars, sendVars, readerVars, appVars>>

\* _process_elder_communication on the received text: elder_info.get at
\* line 348 raises for an absent elder_info; a detected intent takes the
\* intent branch; otherwise line 454 evaluates message_lower
ProcessElderCommunication(chat, best, dev) ==
    /\ nluPc = "received"
    /\ LET frame == Frame(message, elder_info, chat)
           found == DetectIntentFromKeywords(message, best)
       IN  IF elder_info = PyNone
           THEN /\ nluResult' = Fallback("AttributeError")
                /\ detected' = NotCalled
                /\ matcherCalls' = <<>>
           ELSE IF found.intent # "None"
           THEN /\ nluResult' = AnalysisResult(IntentBranch(found.intent, found.confidence), chat)
                /\ detected' = found
                /\ matcherCalls' = <<>>
           ELSE IF ~Resolves("message_lower", frame)
           THEN /\ nluResult' = Fallback("NameError")
                /\ detected' = found
                /\ matcherCalls' = <<>>
           ELSE /\ nluResult' = KeywordChain(message, frame.message_lower, dev, chat)
                /\ detected' = found
                /\ matcherCalls' = KeywordChainMatcherCalls(message, frame.message_lower)
    /\ nluPc' = "returned"
    /\ UNCHANGED <<message, elder_info, response_data, published, catalogVars, serviceVars>>
    /\ UNCHANGED <<transportVars, registryVars, cacheVars, inVars, sendVars, readerVars, appVars>>

\* the route text_assistance after process_elder_text returned: an emergency
\* result is published as an alert (elder_info.get raises for an absent
\* elder_info, which the route turns into status 500), the interaction is
\* logged, response_data is returned and the request's locals are gone. The
\* client of the route's mqtt_service is not initialized here, so each
\* publish_message takes the simulated path, which stores nothing for these
\* topics.
TextAssistance ==
    /\ nluPc = "returned"
    /\ IF nluResult.is_emergency /\ elder_info = PyNone
       THEN /\ response_data' = [status_code |-> 500, keys |-> {"detail"}, ai_response |-> NoNluResult]
            /\ published' = <<>>
       ELSE /\ response_data' =
                    [status_code |-> 200,
                     keys |-> {"status", "message", "ai_response", "timestamp", "elder_info"}
                                \cup (IF nluResult.is_emergency THEN {"emergency_alert", "mqtt_sent"} ELSE {}),
                     ai_response |-> nluResult]
            /\ published' =
                    (IF nluResult.is_emergency
                     THEN <<[topic |-> "eldercare/emergency/mary", payload |-> "emergency_data"]>>
                     ELSE <<>>)
                    \o <<[topic |-> "elder/interactions", payload |-> "interaction_log"]>>
    /\ nluPc' = "idle"
    /\ message' = <<>>
    /\ elder_info' = PyNone
    /\ detected' = NotCalled
    /\ matcherCalls' = <<>>
    /\ nluResult' = NoNluResult
    /\ UNCHANGED <<catalogVars, serviceVars>>
    /\ UNCHANGED <<transportVars, registryVars, cacheVars, inVars, sendVars, readerVars, appVars>>

\* the script update_multiroom_arduino is run on the intent database
UpdateMultiroomArduino ==
    /\ ~multiroom
    /\ multiroom' = TRUE
    /\ UNCHANGED <<message, elder_info, nluPc, detected, matcherCalls, nluResult, response_data, published, inactive, extra_parameters, tie_order>>
    /\ UNCHANGED serviceVars
    /\ UNCHANGED <<transportVars, registryVars, cacheVars, inVars, sendVars, readerVars, appVars>>

\* the text pipeline serving requests
NextNlu ==
    \/ \E text \in Messages, info \in ElderInfos : ProcessElderText(text, info)
    \/ \E chat \in ChatReplies, dev \in FirstDeviceChoices(message) :
          ProcessElderCommunication(chat, BestIntent(message), dev)
    \/ TextAssistance
    \/ UpdateMultiroomArduino

SpecNlu == Init /\ [][NextNlu]_vars

\* ------------------------------------------------------------------------
\* Action parameters (intent database)
\* ------------------------------------------------------------------------
AP(key, parameter_name, default_value) ==
    [key |-> key, parameter_name |-> parameter_name, default_value |-> default_value]

\* init_intent_actions_database: parameters_data in insertion order, each row
\* with the function name its action id was looked up by
ParametersData ==
    <<AP("start_video_call", "contact_name", PyStr(<<"F", "a", "m", "i", "l", "y", " ", "M", "e", "m", "b", "e", "r">>)),
      AP("start_video_call", "phone_number", PyStr(<<"+", "6", "0", "1", "1", "4", "6", "8", "5", "5", "0">>)),
      AP("contact_family", "contact_name", PyStr(<<"S", "a", "r", "a", "h">>)),
      AP("contact_family", "phone_number", PyStr(<<"+", "6", "0", "1", "1", "4", "6", "8", "5", "5", "0">>)),
      AP("contact_family", "message", PyNone),
      AP("call_emergency", "reason", PyStr(<<"G", "e", "n", "e", "r", "a", "l", " ", "e", "m", "e", "r", "g", "e", "n", "c", "y">>)),
      AP("call_emergency", "location", PyStr(<<"H", "o", "m", "e">>)),
      AP("control_arduino_led", "led_state", PyStr(<<"O", "N">>)),
      AP("control_arduino_led", "device_pin", PyStr(<<"8">>)),
      AP("read_arduino_sensors", "sensor_type", PyStr(<<"D", "H", "T", "1", "1">>)),
      AP("set_target_temperature", "target_temperature", PyStr(<<"2", "2">>)),
      AP("set_target_temperature", "target_humidity", PyStr(<<"5", "0">>)),
      AP("control_smart_device", "device_name", PyNone),
      AP("control_smart_device", "action_name", PyNone),
      AP("control_smart_device", "device_category", PyNone),
      AP("control_smart_device", "room", PyNone),
      AP("control_smart_device", "mqtt_topic", PyNone),
      AP("control_smart_device", "mqtt_payload", PyNone),
      AP("send_health_alert", "severity", PyStr(<<"m", "e", "d", "i", "u", "m">>)),
      AP("send_health_alert", "symptoms", PyNone),
      AP("schedule_medication_reminder", "medication_name", PyNone),
      AP("schedule_medication_reminder", "reminder_time", PyNone)>>

\* update_multiroom_arduino: the mqtt_topic of each row of room_actions_data
MultiroomTopics ==
    <<"home/living_room/lights/cmd", "home/living_room/lights/cmd",
      "home/bedroom/lights/cmd", "home/bedroom/lights/cmd",
      "home/kitchen/lights/cmd", "home/kitchen/lights/cmd",
      "home/bathroom/lights/cmd", "home/bathroom/lights/cmd">>

\* update_multiroom_arduino: room_pin_mapping, in the order it is iterated
RoomPinMapping ==
    <<[mqtt_topic |-> "home/living_room/lights/cmd",
       room_name |-> <<"l", "i", "v", "i", "n", "g", "_", "r", "o", "o", "m">>, pin |-> <<"8">>],
      [mqtt_topic |-> "home/bedroom/lights/cmd",
       room_name |-> <<"b", "e", "d", "r", "o", "o", "m">>, pin |-> <<"9">>],
      [mqtt_topic |-> "home/kitchen/lights/cmd",
       room_name |-> <<"k", "i", "t", "c", "h", "e", "n">>, pin |-> <<"1", "0">>],
      [mqtt_topic |-> "home/bathroom/lights/cmd",
       room_name |-> <<"b", "a", "t", "h", "r", "o", "o", "m">>, pin |-> <<"1", "1">>]>>

\* action_ids[key] = action_id run over the rows in id order: the id kept for
\* a key is the one of the last row with that key (0: no such row)
LastIndexOf(keys, key) ==
    LET hits == {i \in 1..Len(keys) : keys[i] = key}
    IN IF hits = {} THEN 0 ELSE CHOOSE i \in hits : \A j \in hits : j <= i

\* the rows init_intent_actions_database inserts into action_parameters, each
\* attached to the action id its function name was looked up to
SeedParameters ==
    LET function_names == [i \in 1..Len(IntentActions) |-> IntentActions[i].function_name]
    IN [i \in 1..Len(ParametersData) |->
           AP(LastIndexOf(function_names, ParametersData[i].key),
              ParametersData[i].parameter_name, ParametersData[i].default_value)]

\* the rows update_multiroom_arduino inserts: four for each room, attached to
\* the action id kept for the room's topic
MultiroomParameters ==
    LET RoomRows(r) ==
            LET action_id == Len(IntentActions) + LastIndexOf(MultiroomTopics, r.mqtt_topic)
            IN <<AP(action_id, "room_name", PyStr(r.room_name)),
                 AP(action_id, "arduino_pin", PyStr(r.pin)),
                 AP(action_id, "led_state", PyStr(<<"O", "N">>)),
                 AP(action_id, "device_type", PyStr(<<"r", "o", "o", "m", "_", "l", "i", "g", "h", "t">>))>>
    IN RoomRows(RoomPinMapping[1]) \o RoomRows(RoomPinMapping[2])
         \o RoomRows(RoomPinMapping[3]) \o RoomRows(RoomPinMapping[4])

\* the rows of action_parameters in the database, in rowid order
ParameterRows ==
    SeedParameters \o (IF multiroom THEN MultiroomParameters ELSE <<>>) \o extra_parameters

\* get_action_by_function_name: the id of the row fetchone() hands back, the
\* first active action with that function name (0: None)
GetActionByFunctionName(function_name) ==
    LET hits == {i \in 1..Len(ActionRows) : ActionRows[i].function_name = function_name}
    IN IF hits = {} THEN 0 ELSE CHOOSE i \in hits : \A j \in hits : i <= j

\* action['parameters'] of that action: its rows of action_parameters
ActionParameters(action_id) ==
    SelectSeq(ParameterRows, LAMBDA row : row.key = action_id)

\* parameters.get(name, default) on the dict built so far
ParametersGet(parameters, name, default) ==
    LET hits == {i \in 1..Len(parameters) : parameters[i].name = name}
    IN IF hits = {} THEN default ELSE parameters[CHOOSE i \in hits : TRUE].value

\* temp_match.group(1) of the re.search for digits, blanks and a unit: the
\* leftmost run of digits followed, after any blanks, by "degree" (<<>>: no
\* match); the texts here are ASCII, so the degree sign the pattern also
\* takes as the unit never decides
TempMatch(text) ==
    LET n == Len(text)
        degree == <<"d", "e", "g", "r", "e", "e">>
        RunEnd(i) == CHOOSE j \in i..n :
                        /\ \A k \in i..j : text[k] \in Digits
                        /\ (j = n \/ text[j + 1] \notin Digits)
        AfterBlanks(j) == CHOOSE k \in (j + 1)..(n + 1) :
                             /\ \A m \in (j + 1)..(k - 1) : text[m] = " "
                             /\ (k = n + 1 \/ text[k] # " ")
        UnitAt(k) == k + 5 <= n /\ \A m \in 1..6 : text[k + m - 1] = degree[m]
        starts == {i \in 1..n : /\ text[i] \in Digits
                                /\ (i = 1 \/ text[i - 1] \notin Digits)
                                /\ UnitAt(AfterBlanks(RunEnd(i)))}
    IN IF starts = {} THEN <<>>
       ELSE LET i == CHOOSE s \in starts : \A o \in starts : s <= o
            IN SubSeq(text, i, RunEnd(i))

\* room_pin_map of generate_action_parameters
RoomPinMap(room) ==
    CASE room = PyStr(<<"l", "i", "v", "i", "n", "g", "_", "r", "o", "o", "m">>) -> PyStr(<<"8">>)
      [] room = PyStr(<<"b", "e", "d", "r", "o", "o", "m">>) -> PyStr(<<"9">>)
      [] room = PyStr(<<"k", "i", "t", "c", "h", "e", "n">>) -> PyStr(<<"1", "0">>)
      [] room = PyStr(<<"b", "a", "t", "h", "r", "o", "o", "m">>) -> PyStr(<<"1", "1">>)
      [] OTHER -> PyNone

\* one turn of the loop of generate_action_parameters: the value stored for
\* the declared parameter row, parameters being the dict built so far
ParamValue(row, parameters, info, text) ==
    LET param_name == row.parameter_name
        message_lower == Lower(text)
        Has(sub) == Contains(message_lower, sub)
        from_context ==
            IF info = PyNone THEN row.default_value
            ELSE IF param_name = "contact_name" /\ "family_contact_name" \in DOMAIN info.v
                 THEN info.v.family_contact_name
            ELSE IF param_name = "phone_number" /\ "family_phone" \in DOMAIN info.v
                 THEN info.v.family_phone
            ELSE IF param_name = "location" /\ "location" \in DOMAIN info.v
                 THEN info.v.location
            ELSE row.default_value
    IN CASE param_name = "led_state" ->
              IF Has(<<"t", "u", "r", "n", " ", "o", "n">>)
                   \/ Has(<<"s", "w", "i", "t", "c", "h", " ", "o", "n">>)
              THEN PyStr(<<"O", "N">>)
              ELSE IF Has(<<"t", "u", "r", "n", " ", "o", "f", "f">>)
                        \/ Has(<<"s", "w", "i", "t", "c", "h", " ", "o", "f", "f">>)
              THEN PyStr(<<"O", "F", "F">>)
              ELSE from_context
         [] param_name = "room_name" ->
              IF Has(<<"l", "i", "v", "i", "n", "g", " ", "r", "o", "o", "m">>)
                   \/ Has(<<"l", "o", "u", "n", "g", "e">>)
              THEN PyStr(<<"l", "i", "v", "i", "n", "g", "_", "r", "o", "o", "m">>)
              ELSE IF Has(<<"b", "e", "d", "r", "o", "o", "m">>)
                        \/ Has(<<"s", "l", "e", "e", "p", "i", "n", "g", " ", "r", "o", "o", "m">>)
              THEN PyStr(<<"b", "e", "d", "r", "o", "o", "m">>)
              ELSE IF Has(<<"k", "i", "t", "c", "h", "e", "n">>)
                        \/ Has(<<"c", "o", "o", "k", "i", "n", "g", " ", "a", "r", "e", "a">>)
              THEN PyStr(<<"k", "i", "t", "c", "h", "e", "n">>)
              ELSE IF Has(<<"b", "a", "t", "h", "r", "o", "o", "m">>)
                        \/ Has(<<"t", "o", "i", "l", "e", "t">>)
                        \/ Has(<<"w", "a", "s", "h", "r", "o", "o", "m">>)
              THEN PyStr(<<"b", "a", "t", "h", "r", "o", "o", "m">>)
              ELSE from_context
         [] param_name = "arduino_pin" ->
              LET room == ParametersGet(parameters, "room_name", row.default_value)
                  pin == RoomPinMap(room)
              IN IF pin = PyNone THEN row.default_value ELSE pin
         [] param_name = "target_temperature" ->
              LET temp_match == TempMatch(message_lower)
              IN IF temp_match = <<>> THEN from_context ELSE PyStr(temp_match)
         [] OTHER -> from_context

\* parameters[param_name] = param_value on the dict, which keeps the place of
\* a name it already holds
ParametersSet(parameters, name, value) ==
    IF \E i \in 1..Len(parameters) : parameters[i].name = name
    THEN [i \in 1..Len(parameters) |->
             IF parameters[i].name = name THEN [name |-> name, value |-> value]
             ELSE parameters[i]]
    ELSE Append(parameters, [name |-> name, value |-> value])

RECURSIVE SynthesizeParameters(_, _, _, _, _)
SynthesizeParameters(rows, n, parameters, info, text) ==
    IF n > Len(rows) THEN parameters
    ELSE SynthesizeParameters(rows, n + 1,
             ParametersSet(parameters, rows[n].parameter_name,
                           ParamValue(rows[n], parameters, info, text)),
             info, text)

\* generate_action_parameters as if no elder_info had been given
GenerateActionParametersWithoutContext(function_name, info, text) ==
    LET action_id == GetActionByFunctionName(function_name)
    IN IF action_id = 0 THEN <<>>
       ELSE SynthesizeParameters(ActionParameters(action_id), 1, <<>>, PyNone, text)

\* generate_action_parameters(function_name, elder_info, message): the dict
\* returned, as the sequence of its items
GenerateActionParameters(function_name, info, text) ==
    LET action_id == GetActionByFunctionName(function_name)
    IN IF action_id = 0 THEN <<>>
       ELSE SynthesizeParameters(ActionParameters(action_id), 1, <<>>, info, text)

\* a caller calls a service method with its arguments
ServiceCall(method, text, info, confidence_threshold, device, function) ==
    /\ svcPc = "idle"
    /\ svcPc' = "called"
    /\ svc' = method
    /\ message' = text
    /\ elder_info' = info
    /\ svcThreshold' = confidence_threshold
    /\ svcDevice' = device
    /\ svcFunction' = function
    /\ UNCHANGED <<detected, svcDevices, svcAction, svcParameters>>
    /\ UNCHANGED <<nluPc, matcherCalls, nluResult, response_data, published, catalogVars>>
    /\ UNCHANGED <<transportVars, registryVars, cacheVars, inVars, sendVars, readerVars, appVars>>

\* the caller is done with what the method returned
ServiceDone ==
    /\ svcPc = "returned"
    /\ svcPc' = "idle"
    /\ svc' = "none"
    /\ message' = <<>>
    /\ elder_info' = PyNone
    /\ svcThreshold' = 0
    /\ svcDevice' = 0
    /\ svcFunction' = "None"
    /\ detected' = NotCalled
    /\ svcDevices' = <<>>
    /\ svcAction' = NoAction
    /\ svcParameters' = <<>>
    /\ UNCHANGED <<nluPc, matcherCalls, nluResult, response_data, published, catalogVars>>
    /\ UNCHANGED <<transportVars, registryVars, cacheVars, inVars, sendVars, readerVars, appVars>>

\* detect_intent_from_keywords(message, confidence_threshold) returns
DetectIntentReturn(best) ==
    /\ svcPc = "called"
    /\ svc = "detect_intent_from_keywords"
    /\ detected' = DetectIntent(message, best, svcThreshold)
    /\ svcPc' = "returned"
    /\ UNCHANGED <<svc, svcDevice, svcFunction, svcDevices, svcAction, svcParameters, svcThreshold>>
    /\ UNCHANGED <<message, elder_info, nluPc, matcherCalls, nluResult, response_data, published, catalogVars>>
    /\ UNCHANGED <<transportVars, registryVars, cacheVars, inVars, sendVars, readerVars, appVars>>

\* find_device_by_keyword(text) returns
FindDeviceReturn(devices) ==
    /\ svcPc = "called"
    /\ svc = "find_device_by_keyword"
    /\ svcDevices' = devices
    /\ svcPc' = "returned"
    /\ UNCHANGED <<svc, svcDevice, svcFunction, detected, svcAction, svcParameters, svcThreshold>>
    /\ UNCHANGED <<message, elder_info, nluPc, matcherCalls, nluResult, response_data, published, catalogVars>>
    /\ UNCHANGED <<transportVars, registryVars, cacheVars, inVars, sendVars, readerVars, appVars>>

\* find_best_action(device_id, action_text) returns
FindBestActionReturn ==
    /\ svcPc = "called"
    /\ svc = "find_best_action"
    /\ svcAction' = FindBestAction(svcDevice, message)
    /\ svcPc' = "returned"
    /\ UNCHANGED <<svc, svcDevice, svcFunction, detected, svcDevices, svcParameters, svcThreshold>>
    /\ UNCHANGED <<message, elder_info, nluPc, matcherCalls, nluResult, response_data, published, catalogVars>>
    /\ UNCHANGED <<transportVars, registryVars, cacheVars, inVars, sendVars, readerVars, appVars>>

\* generate_action_parameters(function_name, elder_info, message) returns
GenerateParametersReturn ==
    /\ svcPc = "called"
    /\ svc = "generate_action_parameters"
    /\ svcParameters' = GenerateActionParameters(svcFunction, elder_info, message)
    /\ svcPc' = "returned"
    /\ UNCHANGED <<svc, svcDevice, svcFunction, detected, svcDevices, svcAction, svcThreshold>>
    /\ UNCHANGED <<message, elder_info, nluPc, matcherCalls, nluResult, response_data, published, catalogVars>>
    /\ UNCHANGED <<transportVars, registryVars, cacheVars, inVars, sendVars, readerVars, appVars>>

\* function names callers pass: catalogued ones and one without rows
FunctionNames ==
    {"start_video_call", "contact_family", "call_emergency", "control_arduino_led",
     "set_target_temperature", "control_arduino_room_light", "open_the_window"}

\* elder_info dicts callers pass with a text
ParameterElderInfos ==
    {PyNone,
     [t |-> "dict", v |-> [name |-> "Mary"]],
     [t |-> "dict", v |-> [name |-> "Mary", location |-> PyStr(<<"G", "a", "r", "d", "e", "n">>)]],
     [t |-> "dict", v |-> [name |-> "Mary",
                           family_contact_name |-> PyStr(<<"A", "n", "n">>),
                           family_phone |-> PyStr(<<"+", "1", "5", "5", "5">>),
                           location |-> PyStr(<<"G", "a", "r", "d", "e", "n">>)]]}

\* what action_parameters may hold besides the scripts' rows: nothing, or
\* led_state (default OFF) declared by the first LED action and room_name and
\* arduino_pin declared by the first room-light action
ExtraParameterSets ==
    {<<>>,
     <<AP(5, "led_state", PyStr(<<"O", "F", "F">>)),
       AP(Len(IntentActions) + 1, "room_name", PyStr(<<"l", "i", "v", "i", "n", "g", "_", "r", "o", "o", "m">>)),
       AP(Len(IntentActions) + 1, "arduino_pin", PyStr(<<"8">>))>>}

\* device ids callers pass: the catalogued devices and an id without rows
DeviceIds == 1..(Len(Devices) + 1)

\* the values callers give confidence_threshold: its default and a stricter one
ConfidenceThresholds == {DefaultConfidenceThreshold, 95}

\* is_active flags of the intents table: all set, or emergency cleared
InactiveIntentSets == {{}, {"emergency"}}

InitServices ==
    /\ MqttInit
    /\ NluIdle
    /\ AppIdle
    /\ inactive \in InactiveIntentSets
    /\ extra_parameters \in ExtraParameterSets
    /\ tie_order \in TieOrders
    /\ tie_order = "reverse" => inactive = {} /\ extra_parameters = <<>>

\* callers of the intent and device services, one call at a time
NextServices ==
    \/ \E text \in ServiceTexts, t \in ConfidenceThresholds :
          ServiceCall("detect_intent_from_keywords", text, PyNone, t, 0, "None")
    \/ DetectIntentReturn(BestIntent(message))
    \/ \E text \in ServiceTexts : ServiceCall("find_device_by_keyword", text, PyNone, 0, 0, "None")
    \/ \E devices \in FindDeviceByKeyword(message) : FindDeviceReturn(devices)
    \/ \E text \in ServiceTexts, d \in DeviceIds : ServiceCall("find_best_action", text, PyNone, 0, d, "None")
    \/ FindBestActionReturn
    \/ \E text \in ServiceTexts, info \in ParameterElderInfos, fn \in FunctionNames :
          ServiceCall("generate_action_parameters", text, info, 0, 0, fn)
    \/ GenerateParametersReturn
    \/ ServiceDone
    \/ UpdateMultiroomArduino

SpecServices == InitServices /\ [][NextServices]_vars

\* ------------------------------------------------------------------------
\* Properties
\* ------------------------------------------------------------------------
\* the cache shows a command the way its delivery would record it: every
\* value _process_arduino_message stores for (topic, payload) is in the cache
Reflects(req, h) ==
    LET ws == ProcessArduinoWrites(req.topic, req.payload)
    IN  \A i \in 1..Len(ws) : ~NeedsClock(ws[i]) => h[ws[i].obj][ws[i].key] = ws[i].val

\* C1 (documented behaviour): a publish made while the client is absent or not
\* connected returns true and leaves the cache reflecting the command, for
\* every topic and payload, and the route's result carries simulated=true.
C1_OfflinePublishReflected ==
    /\ [][(sendPc = "idle" /\ sendPc' = "returned")
            => (sendSuccess' /\ Reflects(sendReq', heap'))]_vars
    /\ [][(sendPath = "degraded" /\ sendPc = "returned" /\ sendPc' = "idle")
            => sendResult'.simulated]_vars

\* C2 (documented behaviour): a write into a snapshot handed out by get_current_state,
\* top-level or nested, leaves what get_current_state returns unchanged.
C2_SnapshotMutationIsolated ==
    [][mutations' # mutations => CacheView' = CacheView]_vars

\* C3 (documented behaviour): whenever the intent classifier returns none for a message,
\* find_device_by_keyword is run on that same message before the result is
\* returned, and a text naming a catalogued device yields a smart_home
\* result carrying the first matched device and the action find_best_action
\* resolves for it.
C3_DeviceMatcherAfterNoIntent ==
    [][(nluPc = "received" /\ nluPc' = "returned" /\ detected'.intent = "None")
        => /\ matcherCalls' = <<message>>
           /\ MatchedDeviceRows(message) # {}
                => /\ nluResult'.success
                   /\ nluResult'.intent_detected = "smart_home"
                   /\ \E d \in FirstMatchedDevices(message) :
                         /\ nluResult'.device = Devices[d].name
                         /\ nluResult'.device_action = FindBestAction(d, message).action_name]_vars

\* sensor pairs the cache can hold if every sensor message is applied as one
\* serialized write: the initial pair or the pair of one delivered message
SerialSensorPairs ==
    {<<InitSensors.temperature, InitSensors.humidity>>}
        \cup {<<FloatVal(Split(m.payload, ",")[1]), FloatVal(Split(m.payload, ",")[2])>> :
                m \in {x \in InboundMsgs : x.topic = T_dht11 /\ SensorWellFormed(x.payload)}}

\* C4 (documented behaviour): cache writes are serialized, so a reader only ever
\* observes sensor values that some sequential order of the writes produces.
C4_ReadersSeeSerialStates ==
    snapshot # NoSnapshot => <<observed.temperature, observed.humidity>> \in SerialSensorPairs

\* C5: when a handler raises, every handler registered after it for the
\* topic is still called with the same topic and message, and on_message
\* returns to wait for the next message.
C5_FanOutSurvivesRaise ==
    [][(inPc = "process" /\ inPc' = "idle")
        => LET cbs == message_callbacks[inMsg.topic]
           IN  \A i \in 1..Len(cbs) :
                 (\E k \in 1..(i - 1) : cbs[k] \in cbErrors')
                    => (i <= Len(invoked') /\ invoked'[i] = Call(cbs[i], inMsg.topic, inMsg.payload))]_vars

\* a raising first handler was followed by the call of the second one
C5_Witness ==
    /\ inPc = "idle"
    /\ Len(invoked) = 2
    /\ invoked[1].h \in cbErrors
    /\ invoked[2].h \notin cbErrors

\* C6: every step of on_message on a malformed sensor payload leaves the
\* whole cache unchanged and the delivery thread alive.
C6_MalformedSensorDropped ==
    [][(/\ inMsg'.topic = T_dht11
        /\ ~SensorWellFormed(inMsg'.payload)
        /\ <<inPc, inMsg, inPlan>>' # <<inPc, inMsg, inPlan>>)
        => (heap' = heap /\ inPc' \in {"idle", "process"})]_vars

\* a malformed two-field payload was handled after an earlier good reading
C6_Witness ==
    /\ inMsg.topic = T_dht11
    /\ Contains(inMsg.payload, <<",">>)
    /\ ~SensorWellFormed(inMsg.payload)
    /\ inPc = "idle"
    /\ heap["S"].temperature # InitSensors.temperature
    /\ heap["S"].last_update # PyNone

\* C7 (documented behaviour): publish_message returns false only for a local error,
\* never because the connection is absent or was lost.
C7_FalseOnlyOnLocalError ==
    (sendPc = "returned" /\ ~sendSuccess) => sendPath = "local_error"

\* C8 (documented behaviour): after disconnect() the loop is stopped and no handler
\* registered before the disconnect is called for a later message.
C8_DisconnectUnregisters ==
    /\ [][(inPc = "process" /\ inPc' = "idle")
            => \A i \in 1..Len(invoked') : invoked'[i].h \notin stale]_vars
    /\ [](connState = "Disconnected" => ~loopRunning)

\* C9: whenever the client is in Connected it holds the whole fixed topic
\* set, on the first connection and on every later one; outside Connected
\* (also after a refused connect) it holds no subscription.
C9_SubscribesOnEveryConnect ==
    /\ connState = "Connected" => subscribed = FixedTopics
    /\ connState # "Connected" => subscribed = {}

\* the client is connected for the second time and holds the fixed set again
C9_Witness ==
    /\ connState = "Connected"
    /\ sessions = 2
    /\ subscribed = FixedTopics

\* C10 (documented behaviour): the simulated flag of a send result is true exactly when
\* that call's publish found the transport not connected, and nothing is raised.
C10_SimulatedMatchesPath ==
    sendResult.status # "none"
        => /\ sendResult.simulated <=> sendPath \in {"degraded", "no_conn"}
           /\ ~sendResult.raised

\* C11 (documented behaviour): a message that clears no intent threshold,
\* matches no device keyword and contains no emergency or mood keyword comes
\* back as data: success, intent conversation, no suggested action, not an
\* emergency and no error.
C11_NoMatchIsConversation ==
    [][(/\ nluPc = "received" /\ nluPc' = "returned"
        /\ elder_info # PyNone
        /\ \A b \in BestIntentChoices(message) : DetectIntentFromKeywords(message, b).intent = "None"
        /\ MatchedDeviceRows(message) = {}
        /\ ~AnyIn(EmergencyKeywords \cup MoodKeywords \cup DarkKeywords \cup TempKeywords, Lower(message)))
        => /\ nluResult'.success
           /\ nluResult'.intent_detected = "conversation"
           /\ nluResult'.suggested_action = "None"
           /\ ~nluResult'.is_emergency
           /\ nluResult'.error = "None"]_vars

\* C12 (documented behaviour): the request "Turn off bedroom lights" resolves
\* to the bedroom light device with action turn_off and yields the command
\* home/bedroom/lights/cmd with payload OFF, with or without the room intents
\* in the database.
C12_TurnOffBedroomLights ==
    [][(nluPc = "returned" /\ nluPc' = "idle" /\ message = TurnOffBedroomLights /\ elder_info # PyNone)
        => /\ response_data'.status_code = 200
           /\ response_data'.ai_response.device \in {"Bedroom Lights", "Bedroom Light"}
           /\ response_data'.ai_response.device_action = <<"t", "u", "r", "n", "_", "o", "f", "f">>
           /\ \/ "mqtt_commands" \in response_data'.keys
              \/ \E i \in 1..Len(published') :
                    published'[i] = [topic |-> "home/bedroom/lights/cmd", payload |-> "OFF"]]_vars

\* C13: processing "I need emergency help, I fell" yields intent emergency
\* with confidence at least 0.9 and the action call_emergency, whatever
\* elder_info, the model's reply and the database state are.
C13_EmergencyHelpFell ==
    [][(nluPc = "received" /\ nluPc' = "returned" /\ message = EmergencyHelpFell)
        => /\ nluResult'.intent_detected = "emergency"
           /\ nluResult'.confidence_score >= 90
           /\ nluResult'.suggested_action = "call_emergency"]_vars

\* the classifier itself found emergency for that text and the result was
\* built by the intent branch
C13_Witness ==
    /\ nluPc = "returned"
    /\ message = EmergencyHelpFell
    /\ detected.intent = "emergency"
    /\ nluResult.success
    /\ nluResult.confidence_score = 90
    /\ nluResult.suggested_action = "call_emergency"

\* accumulated weight, in tenths, of the rows 1..n of the keyword table
\* that belong to intent and whose keyword occurs in the lowered text
RECURSIVE ScoreUpTo(_, _, _)
ScoreUpTo(intent, lowered, n) ==
    IF n = 0 THEN 0
    ELSE ScoreUpTo(intent, lowered, n - 1)
            + (IF /\ KeywordRows[n].intent = intent
                  /\ Contains(lowered, Lower(KeywordRows[n].keyword))
               THEN KeywordRows[n].weight ELSE 0)

\* C14: detect_intent_from_keywords returns a top-scoring active intent, with
\* confidence min(score/5, 1), exactly when that confidence is at least
\* max(confidence_threshold, the intent's confidence_threshold); otherwise
\* none: for a text without known keyword, and also when only a
\* lower-scoring intent would clear its own threshold. An inactive intent is
\* never returned.
C14_DetectIntentCharacterised ==
    [][(svc = "detect_intent_from_keywords" /\ svcPc = "called" /\ svcPc' = "returned") =>
        LET lowered == Lower(message)
            Score(n) == ScoreUpTo(n, lowered, Len(KeywordRows))
            Active == {KeywordRows[i].intent : i \in 1..Len(KeywordRows)} \ inactive
            Cands == {n \in Active : \E i \in 1..Len(KeywordRows) :
                        /\ KeywordRows[i].intent = n
                        /\ Contains(lowered, Lower(KeywordRows[i].keyword))}
            Top == {n \in Cands : \A m \in Cands : Score(m) <= Score(n)}
            Conf(n) == IF Score(n) * 2 >= 100 THEN 100 ELSE Score(n) * 2
            Clears(n) == Conf(n) >= svcThreshold /\ Conf(n) >= ThresholdOf(n)
        IN  /\ detected'.intent # "None"
                => /\ detected'.intent \in Top
                   /\ detected'.intent \notin inactive
                   /\ Clears(detected'.intent)
                   /\ detected'.confidence = Conf(detected'.intent)
            /\ detected'.intent = "None"
                => \/ Cands = {}
                   \/ \E n \in Top : ~Clears(n)]_vars

\* the classifier returned none although a lower-scoring intent clears its
\* own threshold: emergency scores 4.0 (0.8 < 0.9), temperature_monitoring
\* 3.5 (0.7 >= 0.7)
C14_Witness ==
    /\ svc = "detect_intent_from_keywords"
    /\ svcPc = "returned"
    /\ message = <<"h", "e", "l", "p", " ", "f", "a", "l", "l", " ", "t", "e", "m", "p", "e", "r", "a", "t", "u", "r", "e", " ",
                   "t", "h", "e", "r", "m", "o", "s", "t", "a", "t">>
    /\ inactive = {}
    /\ svcThreshold = DefaultConfidenceThreshold
    /\ detected.intent = "None"
    /\ ScoreUpTo("emergency", Lower(message), Len(KeywordRows)) = 40
    /\ ScoreUpTo("temperature_monitoring", Lower(message), Len(KeywordRows)) = 35

ActionsOf(device) == {i \in 1..Len(DeviceActions) : DeviceActions[i].device_id = device}

\* res is what the ordered fallback gives for (device, text) when dflt is
\* the device's default action: an action whose name occurs in the text;
\* else one whose synonym group has a phrase in the text; else dflt; none
\* only for a device without actions
OrderedFallback(res, device, text, dflt) ==
    LET lowered == Lower(text)
        acts == {DeviceActions[i] : i \in ActionsOf(device)}
        named == {a \in acts : Contains(lowered, Lower(a.action_name))}
        bySynonym == {a \in acts : /\ a.action_name \in SynonymNames
                                    /\ \E k \in ActionKeywords(a.action_name) : Contains(lowered, k)}
    IN  /\ named # {} => res \in named
        /\ (named = {} /\ bySynonym # {}) => res \in bySynonym
        /\ (named = {} /\ bySynonym = {} /\ acts # {}) => res = dflt
        /\ res = NoAction <=> acts = {}

PleaseSwitchOnTheLamp == <<"p", "l", "e", "a", "s", "e", " ", "s", "w", "i", "t", "c", "h", " ", "o", "n", " ", "t", "h", "e", " ", "l", "a", "m", "p">>

\* C16 (as documented): find_best_action returns an action named in the
\* text, else an action whose synonym group has a phrase in the text, else
\* the device's first defined action (the first row the seed inserts for
\* it), and none only for a device without actions; for a device with the
\* actions turn_on and turn_off and "please switch on the lamp" it returns
\* turn_on.
C16_FirstDefinedDefault ==
    [][(svc = "find_best_action" /\ svcPc = "called" /\ svcPc' = "returned") =>
        OrderedFallback(svcAction', svcDevice, message,
            IF ActionsOf(svcDevice) = {} THEN NoAction
            ELSE DeviceActions[CHOOSE i \in ActionsOf(svcDevice) : \A j \in ActionsOf(svcDevice) : i <= j])]_vars

\* C16 (amended): as above, with the default being the device's first action
\* in the order of action_name, which is the order get_device_actions lists
\* them in.
C16_FirstByNameDefault ==
    [][(svc = "find_best_action" /\ svcPc = "called" /\ svcPc' = "returned") =>
        /\ OrderedFallback(svcAction', svcDevice, message,
                IF ActionsOf(svcDevice) = {} THEN NoAction
                ELSE DeviceActions[CHOOSE i \in ActionsOf(svcDevice) : \A j \in ActionsOf(svcDevice) \ {i} :
                                        StrLt(DeviceActions[i].action_name, DeviceActions[j].action_name)])
        /\ (/\ message = PleaseSwitchOnTheLamp
            /\ {DeviceActions[i].action_name : i \in ActionsOf(svcDevice)}
                    = {<<"t", "u", "r", "n", "_", "o", "n">>, <<"t", "u", "r", "n", "_", "o", "f", "f">>})
                => svcAction'.action_name = <<"t", "u", "r", "n", "_", "o", "n">>]_vars

\* the default was taken: "thermostat" names no action and no synonym of the
\* Main Thermostat, and decrease_temp, its first action by name, came back
C16_Witness ==
    /\ svc = "find_best_action"
    /\ svcPc = "returned"
    /\ Devices[svcDevice].name = "Main Thermostat"
    /\ message = <<"t", "h", "e", "r", "m", "o", "s", "t", "a", "t">>
    /\ svcAction.action_name = <<"d", "e", "c", "r", "e", "a", "s", "e", "_", "t", "e", "m", "p">>


\* a step in which generate_action_parameters returns to its caller
GenerateParametersReturns ==
    svc = "generate_action_parameters" /\ svcPc = "called" /\ svcPc' = "returned"

\* the parameters declared by the action generate_action_parameters works on
DeclaredParameters == ActionParameters(GetActionByFunctionName(svcFunction))

TurnItOn == <<"t", "u", "r", "n", " ", "i", "t", " ", "o", "n">>

\* C17: for an action declaring led_state with default OFF, the text "turn it
\* on" yields led_state = ON; a text asking to turn the light on yields ON
\* and a text asking to turn it off yields OFF.
C17_TextOverridesLedState ==
    [][(GenerateParametersReturns
          /\ \E i \in 1..Len(DeclaredParameters) :
                /\ DeclaredParameters[i].parameter_name = "led_state"
                /\ DeclaredParameters[i].default_value = PyStr(<<"O", "F", "F">>))
       => LET led_state == ParametersGet(svcParameters', "led_state", PyNone)
              lowered == Lower(message)
          IN /\ (message = TurnItOn => led_state = PyStr(<<"O", "N">>))
             /\ (Contains(lowered, <<"t", "u", "r", "n", " ", "o", "n">>)
                   => led_state = PyStr(<<"O", "N">>))
             /\ (Contains(lowered, <<"t", "u", "r", "n", " ", "o", "f", "f">>)
                   => led_state = PyStr(<<"O", "F", "F">>))]_vars

\* C18: in a call for the room-light action, arduino_pin is the index of the
\* room room_name resolved to in that call, and a text mentioning only
\* "bathroom" yields room_name = bathroom and arduino_pin = 11.
C18_PinFollowsResolvedRoom ==
    [][(GenerateParametersReturns
          /\ svcFunction = "control_arduino_room_light"
          /\ GetActionByFunctionName(svcFunction) # 0)
       => LET room_name == ParametersGet(svcParameters', "room_name", PyNone)
              arduino_pin == ParametersGet(svcParameters', "arduino_pin", PyNone)
          IN /\ room_name # PyNone
             /\ arduino_pin = RoomPinMap(room_name)
             /\ (message = <<"b", "a", "t", "h", "r", "o", "o", "m">>
                   => /\ room_name = PyStr(<<"b", "a", "t", "h", "r", "o", "o", "m">>)
                      /\ arduino_pin = PyStr(<<"1", "1">>))]_vars


\* the marker of "no value here", apart from every Python value
NoValue == [t |-> "missing", v |-> 0]

\* the words of a text that name a room, a room named earlier going first
RoomWords ==
    <<[room |-> <<"l", "i", "v", "i", "n", "g", "_", "r", "o", "o", "m">>,
       words |-> {<<"l", "i", "v", "i", "n", "g", " ", "r", "o", "o", "m">>, <<"l", "o", "u", "n", "g", "e">>}],
      [room |-> <<"b", "e", "d", "r", "o", "o", "m">>,
       words |-> {<<"b", "e", "d", "r", "o", "o", "m">>,
                  <<"s", "l", "e", "e", "p", "i", "n", "g", " ", "r", "o", "o", "m">>}],
      [room |-> <<"k", "i", "t", "c", "h", "e", "n">>,
       words |-> {<<"k", "i", "t", "c", "h", "e", "n">>,
                  <<"c", "o", "o", "k", "i", "n", "g", " ", "a", "r", "e", "a">>}],
      [room |-> <<"b", "a", "t", "h", "r", "o", "o", "m">>,
       words |-> {<<"b", "a", "t", "h", "r", "o", "o", "m">>, <<"t", "o", "i", "l", "e", "t">>,
                  <<"w", "a", "s", "h", "r", "o", "o", "m">>}]>>

\* what the text yields for the i-th declared parameter, earlier being the
\* items synthesized before it (NoValue: the text yields nothing for it)
TextValue(name, lowered, earlier) ==
    CASE name = "led_state" ->
           IF \E w \in {<<"t", "u", "r", "n", " ", "o", "n">>,
                        <<"s", "w", "i", "t", "c", "h", " ", "o", "n">>} : Contains(lowered, w)
           THEN PyStr(<<"O", "N">>)
           ELSE IF \E w \in {<<"t", "u", "r", "n", " ", "o", "f", "f">>,
                             <<"s", "w", "i", "t", "c", "h", " ", "o", "f", "f">>} : Contains(lowered, w)
           THEN PyStr(<<"O", "F", "F">>)
           ELSE NoValue
      [] name = "room_name" ->
           LET named == {r \in 1..Len(RoomWords) : \E w \in RoomWords[r].words : Contains(lowered, w)}
           IN IF named = {} THEN NoValue
              ELSE PyStr(RoomWords[CHOOSE r \in named : \A o \in named : r <= o].room)
      [] name = "arduino_pin" ->
           LET rooms == {k \in 1..Len(earlier) : earlier[k].name = "room_name"}
           IN IF rooms = {} \/ \A k \in rooms : RoomPinMap(earlier[k].value) = PyNone
              THEN NoValue
              ELSE RoomPinMap(earlier[CHOOSE k \in rooms : TRUE].value)
      [] name = "target_temperature" ->
           IF TempMatch(lowered) = <<>> THEN NoValue ELSE PyStr(TempMatch(lowered))
      [] OTHER -> NoValue

\* what the caller's context yields for a parameter: the mapped field of
\* elder_info when it has it
ContextValue(name, info) ==
    IF info = PyNone THEN NoValue
    ELSE CASE name = "contact_name" /\ "family_contact_name" \in DOMAIN info.v -> info.v.family_contact_name
           [] name = "phone_number" /\ "family_phone" \in DOMAIN info.v -> info.v.family_phone
           [] name = "location" /\ "location" \in DOMAIN info.v -> info.v.location
           [] OTHER -> NoValue

\* C19: the result holds exactly the declared parameter names, and each value
\* is the text-extracted one when the text yields one, otherwise the context
\* value when the context has the mapped field, otherwise the declared
\* default (possibly None).
C19_TextThenContextThenDefault ==
    [][GenerateParametersReturns
       => LET declared == DeclaredParameters
              result == svcParameters'
              lowered == Lower(message)
          IN /\ Len(result) = Len(declared)
             /\ \A i \in 1..Len(declared) :
                   LET name == declared[i].parameter_name
                       from_text == TextValue(name, lowered, SubSeq(result, 1, i - 1))
                       from_context == ContextValue(name, elder_info)
                   IN /\ result[i].name = name
                      /\ result[i].value =
                            IF from_text # NoValue THEN from_text
                            ELSE IF from_context # NoValue THEN from_context
                            ELSE declared[i].default_value]_vars

\* contact_family was asked for with a context naming the family contact: its
\* name and phone come from the context and message keeps its default None
C19_Witness ==
    /\ svc = "generate_action_parameters"
    /\ svcPc = "returned"
    /\ svcFunction = "contact_family"
    /\ elder_info # PyNone
    /\ "family_contact_name" \in DOMAIN elder_info.v
    /\ svcParameters = <<[name |-> "contact_name", value |-> PyStr(<<"A", "n", "n">>)],
                         [name |-> "phone_number", value |-> PyStr(<<"+", "1", "5", "5", "5">>)],
                         [name |-> "message", value |-> PyNone]>>


\* the text holds the word and the device offers the action of that name
\* together with its opposite
AsksFor(word, opposite) ==
    LET names == {DeviceActions[i].action_name : i \in ActionsOf(svcDevice)}
    IN /\ word \in names
       /\ opposite \in names
       /\ Contains(Lower(message), word)

\* C20: for a device offering both lock and unlock (both arm and disarm), a
\* text containing "unlock" ("disarm") resolves through find_best_action to
\* unlock (disarm), never to lock (arm).
C20_UnlockNeverLocks ==
    [][(svc = "find_best_action" /\ svcPc = "called" /\ svcPc' = "returned")
       => /\ (AsksFor(<<"u", "n", "l", "o", "c", "k">>, <<"l", "o", "c", "k">>)
                => svcAction'.action_name = <<"u", "n", "l", "o", "c", "k">>)
          /\ (AsksFor(<<"d", "i", "s", "a", "r", "m">>, <<"a", "r", "m">>)
                => svcAction'.action_name = <<"d", "i", "s", "a", "r", "m">>)]_vars

\* the commands control_arduino_led and control_arduino_thermostat publish
DeviceCommands == {Msg(T_led_cmd, P_ON), Msg(T_led_cmd, P_OFF), Msg(T_thermostat_set, P_25)}

\* C21: for a single LED or thermostat command the cache after an offline
\* (simulated) publish equals the cache after the inbound echo of the command
\* an online publish is followed by: the same device field holds the same
\* value and a last-command time is recorded.
C21_OfflineEqualsEcho ==
    [][(sendPc = "idle" /\ sendPc' = "returned" /\ sendPath' = "degraded"
          /\ sendReq' \in DeviceCommands)
       => LET echoed == ApplyWrites(heap, ProcessArduinoWrites(sendReq'.topic, sendReq'.payload),
                                    now + 1)
          IN /\ heap'["D"].led = echoed["D"].led
             /\ heap'["D"].thermostat_target = echoed["D"].thermostat_target
             /\ heap'["D"].last_command # PyNone]_vars

\* C27: in every reachable state devices.led of the cache is ON or OFF,
\* whatever inbound messages and online or offline publishes, with arbitrary
\* payloads, have occurred.
C27_LedIsOnOrOff == heap["D"].led \in {PyStr(P_ON), PyStr(P_OFF)}

\* an offline publish of a payload that is neither ON nor OFF has returned
\* after an earlier command had switched the LED on
C27_Witness ==
    /\ sendPc = "returned"
    /\ sendPath = "degraded"
    /\ sendReq = Msg(T_led_cmd, P_on_lower)
    /\ heap["D"].led = PyStr(P_ON)

\* C24: the cache's temperature and humidity are those of the most recent
\* well-formed sensor message, both of the same message, or the initial
\* values: a sensor field changes only by a write of the well-formed sensor
\* message in hand, to that message's value, and when the handling of a
\* well-formed sensor message reaches the callbacks both fields hold its values.
C24_SensorsOfLastReading ==
    [][LET fields == Split(inMsg.payload, ",")
           reading == inMsg.topic = T_dht11 /\ Decodable(inMsg.payload)
                        /\ SensorWellFormed(inMsg.payload)
       IN /\ heap'["S"].temperature # heap["S"].temperature
               => reading /\ inPc = "process" /\ heap'["S"].temperature = FloatVal(fields[1])
          /\ heap'["S"].humidity # heap["S"].humidity
               => reading /\ inPc = "process" /\ heap'["S"].humidity = FloatVal(fields[2])
          /\ (reading /\ inPc = "process" /\ inPc' = "idle")
               => /\ heap'["S"].temperature = FloatVal(fields[1])
                  /\ heap'["S"].humidity = FloatVal(fields[2])]_vars

\* two readings were stored, the later one "21, 40", and a malformed message
\* handled after them left both fields as that reading set them
C24_Witness ==
    /\ inPc = "idle"
    /\ inMsg = Msg(T_dht11, P_sensor_badtemp)
    /\ heap["S"].temperature = PyFloat(21)
    /\ heap["S"].humidity = PyFloat(40)
    /\ heap["S"].last_update = IsoTime(2)

\* the topic is neither the sensor topic, a tracked command topic nor a
\* home/<device>/status topic
Untracked(topic) ==
    /\ topic \notin {T_dht11, T_led_cmd, T_thermostat_set}
    /\ ~(Len(topic) >= 2 /\ topic[1] = "home" /\ topic[Len(topic)] = "status")

IsEmergencyAlert(p) == p.payload = "emergency_data"

IsInteractionLog(p) == p.topic = "elder/interactions"

\* C29: when text_assistance finishes a request whose result has
\* is_emergency = true (the fallback result of an internal exception
\* included), it has published exactly one emergency alert followed by the
\* interaction log; for a result with is_emergency = false it has published
\* the interaction log only.
C29_AlertBeforeLog ==
    [][(nluPc = "returned" /\ nluPc' = "idle")
        => IF nluResult.is_emergency
           THEN /\ Len(published') = 2
                /\ IsEmergencyAlert(published'[1])
                /\ IsInteractionLog(published'[2])
           ELSE /\ Len(published') = 1
                /\ IsInteractionLog(published'[1])]_vars


\* the intents that share the highest accumulated score for the text
TopScoring(text) ==
    LET sc == IntentScores(text)
    IN  {n \in DOMAIN sc : \A m \in DOMAIN sc : sc[m] <= sc[n]}

\* the matched row of intent n that the query returns first
FirstMatchingRow(text, n) ==
    LET rows == {i \in MatchedRows(text) : KeywordRows[i].intent = n}
    IN  CHOOSE i \in rows : \A j \in rows \ {i} : RowBefore(i, j)

\* C25: among the intents that share the highest accumulated score,
\* detect_intent_from_keywords selects the one whose first matching keyword
\* row comes earliest in the weight-descending order of the query; the
\* selection is a function of the text and the catalog (the rows, the
\* is_active flags and the order the database returns them in), so the same
\* text against the same catalog always selects the same intent.
C25_TieGoesToEarliestRow ==
    [][(svcPc = "called" /\ svc = "detect_intent_from_keywords" /\ svcPc' = "returned"
        /\ TopScoring(message) # {})
        => LET top == TopScoring(message)
               earliest == CHOOSE n \in top :
                              \A m \in top \ {n} :
                                 RowBefore(FirstMatchingRow(message, n), FirstMatchingRow(message, m))
               score == IntentScores(message)[earliest]
           IN  /\ detected'.intent \in {"None", earliest}
               /\ Confidence(score) >= Max(svcThreshold, ThresholdOf(earliest))
                    => detected' = [intent |-> earliest, confidence |-> Confidence(score)]]_vars

C25_Witness ==
    /\ svcPc = "returned"
    /\ svc = "detect_intent_from_keywords"
    /\ Cardinality(TopScoring(message)) >= 2
    /\ detected.intent # "None"
    /\ \E n \in TopScoring(message) \ {detected.intent} :
          KeywordRows[FirstMatchingRow(message, n)].weight
            = KeywordRows[FirstMatchingRow(message, detected.intent)].weight


\* ------------------------------------------------------------------------
\* Live-status connections (websocket_routes.WebSocketManager)
\* ------------------------------------------------------------------------
MaxConnections == 3

Connections == 1..MaxConnections

\* list.remove(x): the list without its first x
ListRemove(list, x) ==
    LET at == CHOOSE i \in 1..Len(list) : list[i] = x /\ \A j \in 1..(i - 1) : list[j] # x
    IN  [i \in 1..(Len(list) - 1) |-> IF i < at THEN list[i] ELSE list[i + 1]]

Elements(list) == {list[i] : i \in 1..Len(list)}

\* manager.connect(websocket) of a new client, between broadcasts
WsConnect(c) ==
    /\ bcPc = "idle"
    /\ c \notin Elements(active_connections)
    /\ active_connections' = Append(active_connections, c)
    /\ UNCHANGED <<bcPc, bcIndex, bcBegan, bcAttempted, bcFailed, cmdVars>>
    /\ UNCHANGED <<transportVars, registryVars, cacheVars, inVars, sendVars, readerVars>>
    /\ UNCHANGED <<message, elder_info, nluPc, detected, matcherCalls, nluResult, response_data, published, catalogVars, serviceVars>>

\* manager.disconnect(websocket) when the endpoint sees WebSocketDisconnect
WsDisconnect(c) ==
    /\ bcPc = "idle"
    /\ c \in Elements(active_connections)
    /\ active_connections' = ListRemove(active_connections, c)
    /\ UNCHANGED <<bcPc, bcIndex, bcBegan, bcAttempted, bcFailed, cmdVars>>
    /\ UNCHANGED <<transportVars, registryVars, cacheVars, inVars, sendVars, readerVars>>
    /\ UNCHANGED <<message, elder_info, nluPc, detected, matcherCalls, nluResult, response_data, published, catalogVars, serviceVars>>

\* broadcast(message) is entered: the for loop takes an iterator over the
\* list object self.active_connections itself
BroadcastBegin ==
    /\ bcPc = "idle"
    /\ bcPc' = "loop"
    /\ bcIndex' = 0
    /\ bcBegan' = active_connections
    /\ bcAttempted' = {}
    /\ bcFailed' = {}
    /\ UNCHANGED <<active_connections, cmdVars>>
    /\ UNCHANGED <<transportVars, registryVars, cacheVars, inVars, sendVars, readerVars>>
    /\ UNCHANGED <<message, elder_info, nluPc, detected, matcherCalls, nluResult, response_data, published, catalogVars, serviceVars>>

\* one pass of the loop body: the iterator yields the element at its index
\* and advances; send_text succeeds or raises; on a raise
\* disconnect_websocket removes the connection from the list being iterated
BroadcastSend(ok) ==
    /\ bcPc = "loop"
    /\ bcIndex < Len(active_connections)
    /\ LET connection == active_connections[bcIndex + 1]
       IN  /\ bcAttempted' = bcAttempted \cup {connection}
           /\ bcFailed' = IF ok THEN bcFailed ELSE bcFailed \cup {connection}
           /\ active_connections' =
                IF ok THEN active_connections ELSE ListRemove(active_connections, connection)
    /\ bcIndex' = bcIndex + 1
    /\ UNCHANGED <<bcPc, bcBegan, cmdVars>>
    /\ UNCHANGED <<transportVars, registryVars, cacheVars, inVars, sendVars, readerVars>>
    /\ UNCHANGED <<message, elder_info, nluPc, detected, matcherCalls, nluResult, response_data, published, catalogVars, serviceVars>>

\* the iterator is exhausted: its index has reached the length of the list
BroadcastEnd ==
    /\ bcPc = "loop"
    /\ bcIndex >= Len(active_connections)
    /\ bcPc' = "idle"
    /\ UNCHANGED <<active_connections, bcIndex, bcBegan, bcAttempted, bcFailed, cmdVars>>
    /\ UNCHANGED <<transportVars, registryVars, cacheVars, inVars, sendVars, readerVars>>
    /\ UNCHANGED <<message, elder_info, nluPc, detected, matcherCalls, nluResult, response_data, published, catalogVars, serviceVars>>

NextBroadcast ==
    \/ \E c \in Connections : WsConnect(c)
    \/ \E c \in Connections : WsDisconnect(c)
    \/ BroadcastBegin
    \/ \E ok \in BOOLEAN : BroadcastSend(ok)
    \/ BroadcastEnd

SpecBroadcast == Init /\ [][NextBroadcast]_vars

\* C28: when a broadcast ends, send_text has been attempted on every
\* connection that was active when it began, every connection whose send
\* failed is gone from active_connections and every connection whose send
\* succeeded is still in it.
C28_BroadcastReachesAll ==
    [][(bcPc = "loop" /\ bcPc' = "idle")
        => /\ Elements(bcBegan) \subseteq bcAttempted'
           /\ bcFailed' \cap Elements(active_connections') = {}
           /\ (bcAttempted' \ bcFailed') \subseteq Elements(active_connections')]_vars


\* ------------------------------------------------------------------------
\* Device commands: the Arduino routes, the smart-home and chat routes and
\* the AI service's device functions, each with the MQTTService it holds
\* ------------------------------------------------------------------------
Components == {"mqtt_routes", "smart_home_routes", "chat_routes", "ai_service"}

\* the MQTTService object a component's mqtt_service names: main.py:38-41
\* hands its own to mqtt_routes and smart_home_routes; chat_routes keeps the
\* one it created and AIService the one of its constructor
InstanceOf(component) == IF component \in PeerInstances THEN component ELSE "main"

\* current_state["sensors"/"devices"] of an instance
HeapOf(instance) == IF instance = "main" THEN heap ELSE peer_heap[instance]

UpperChar(c) ==
    IF \E u \in Capitals : LowerChar(u) = c
    THEN CHOOSE u \in Capitals : LowerChar(u) = c
    ELSE c

\* str.upper()
Upper(s) == [i \in 1..Len(s) |-> UpperChar(s[i])]

DigitChar(d) == CHOOSE c \in Digits : DigitVal(c) = d

\* str(n) of a non-negative int
RECURSIVE IntStr(_)
IntStr(n) == IF n < 10 THEN <<DigitChar(n)>> ELSE IntStr(n \div 10) \o <<DigitChar(n % 10)>>

\* states and temperatures callers give the device commands
LedStates == {P_ON, P_on_lower, P_OFF, <<"d", "i", "m">>}

Temperatures == {15, 17, 25, 31}

\* raise HTTPException(status_code, detail) inside a route's try block: the
\* route's own `except Exception` catches it and raises HTTPException(500)
RaisedInTry(status_code, detail) ==
    [status_code |-> 500, success |-> FALSE, error |-> detail]

RouteOk == [status_code |-> 200, success |-> TRUE, error |-> "None"]

\* return {"success": ..., "error": ...} of an AIService device function
FunctionReturn(success, error) == [status_code |-> 0, success |-> success, error |-> error]

Sent(instance, topic, payload) == [instance |-> instance, topic |-> topic, payload |-> payload]

\* publish_message of the main instance: the cache it leaves and its result
\* (delivered: the client is still connected when client.publish runs)
MainPublishHeap(topic, m) ==
    IF ~IsConnected THEN ApplyWrites(heap, OfflineWrites(topic, m), now) ELSE heap

MainPublishSuccess(topic, delivered) ==
    IF ~IsConnected THEN TRUE ELSE PublishReturn(ClientPublish(topic, delivered))

\* publish_message of a peer instance: the AIService one is never
\* initialized, the chat one is connected to its broker or not
PeerPublishHeap(instance, topic, m, connected) ==
    IF instance = "ai_service" \/ ~connected
    THEN [peer_heap EXCEPT ![instance] = ApplyWrites(@, OfflineWrites(topic, m), now)]
    ELSE peer_heap

CmdFrame ==
    /\ UNCHANGED <<transportVars, registryVars, current_state, now, inVars, sendVars, readerVars, wsVars>>
    /\ UNCHANGED <<message, elder_info, nluPc, detected, matcherCalls, nluResult, response_data, published, catalogVars, serviceVars>>

\* POST /mqtt/arduino/led
ControlArduinoLed(state, delivered) ==
    /\ cmdReq = NoCmd
    /\ cmdReq' = [component |-> "mqtt_routes", device |-> "led", argument |-> PyStr(state)]
    /\ LET command == Upper(state)
       IN  IF command \notin {P_ON, P_OFF}
           THEN /\ cmdOutcome' = RaisedInTry(400, "State must be 'ON' or 'OFF'")
                /\ cmdSent' = <<>>
                /\ heap' = heap
           ELSE /\ cmdSent' = <<Sent("main", T_led_cmd, command)>>
                /\ heap' = MainPublishHeap(T_led_cmd, command)
                /\ cmdOutcome' = IF MainPublishSuccess(T_led_cmd, delivered)
                                 THEN RouteOk
                                 ELSE RaisedInTry(500, "Failed to control Arduino LED")
    /\ UNCHANGED peer_heap
    /\ CmdFrame

\* POST /mqtt/arduino/thermostat
ControlArduinoThermostat(temperature, delivered) ==
    /\ cmdReq = NoCmd
    /\ cmdReq' = [component |-> "mqtt_routes", device |-> "thermostat", argument |-> PyInt(temperature)]
    /\ IF ~(16 <= temperature /\ temperature <= 30)
       THEN /\ cmdOutcome' = RaisedInTry(400, "Temperature must be between 16-30")
            /\ cmdSent' = <<>>
            /\ heap' = heap
       ELSE /\ cmdSent' = <<Sent("main", T_thermostat_set, IntStr(temperature))>>
            /\ heap' = MainPublishHeap(T_thermostat_set, IntStr(temperature))
            /\ cmdOutcome' = IF MainPublishSuccess(T_thermostat_set, delivered)
                             THEN RouteOk
                             ELSE RaisedInTry(500, "Failed to control Arduino thermostat")
    /\ UNCHANGED peer_heap
    /\ CmdFrame

\* POST /mqtt/send of smart_home_routes: the result of publish_message is
\* not looked at
SendMqttCommand(topic, payload) ==
    /\ cmdReq = NoCmd
    /\ cmdReq' = [component |-> "smart_home_routes", device |-> "topic", argument |-> PyStr(payload)]
    /\ cmdSent' = <<Sent("main", topic, payload)>>
    /\ heap' = MainPublishHeap(topic, payload)
    /\ cmdOutcome' = RouteOk
    /\ UNCHANGED peer_heap
    /\ CmdFrame

\* chat_with_ai executing an mqtt command of the AI response
ChatCommand(topic, payload, connected) ==
    /\ cmdReq = NoCmd
    /\ cmdReq' = [component |-> "chat_routes", device |-> "topic", argument |-> PyStr(payload)]
    /\ cmdSent' = <<Sent("chat_routes", topic, payload)>>
    /\ peer_heap' = PeerPublishHeap("chat_routes", topic, payload, connected)
    /\ cmdOutcome' = RouteOk
    /\ UNCHANGED heap
    /\ CmdFrame

\* AIService._control_led(action)
ControlLed(action) ==
    /\ cmdReq = NoCmd
    /\ cmdReq' = [component |-> "ai_service", device |-> "led", argument |-> PyStr(action)]
    /\ IF Upper(action) \notin {P_ON, P_OFF}
       THEN /\ cmdOutcome' = FunctionReturn(FALSE, "Action must be ON or OFF")
            /\ cmdSent' = <<>>
            /\ peer_heap' = peer_heap
       ELSE /\ cmdSent' = <<Sent("ai_service", T_led_cmd, Upper(action))>>
            /\ peer_heap' = PeerPublishHeap("ai_service", T_led_cmd, Upper(action), FALSE)
            /\ cmdOutcome' = FunctionReturn(TRUE, "None")
    /\ UNCHANGED heap
    /\ CmdFrame

\* AIService._control_thermostat(temperature)
ControlThermostat(temperature) ==
    /\ cmdReq = NoCmd
    /\ cmdReq' = [component |-> "ai_service", device |-> "thermostat", argument |-> PyInt(temperature)]
    /\ IF ~(18 <= temperature /\ temperature <= 30)
       THEN /\ cmdOutcome' = FunctionReturn(FALSE, "Temperature must be between 18-30 for safety")
            /\ cmdSent' = <<>>
            /\ peer_heap' = peer_heap
       ELSE /\ cmdSent' = <<Sent("ai_service", T_thermostat_cmd, P_SET_TEMP_prefix \o IntStr(temperature))>>
            /\ peer_heap' = PeerPublishHeap("ai_service", T_thermostat_cmd,
                                            P_SET_TEMP_prefix \o IntStr(temperature), FALSE)
            /\ cmdOutcome' = FunctionReturn(TRUE, "None")
    /\ UNCHANGED heap
    /\ CmdFrame

\* the answer has been handed over; the request's locals are gone
CmdDone ==
    /\ cmdReq # NoCmd
    /\ cmdReq' = NoCmd
    /\ cmdOutcome' = NoOutcome
    /\ cmdSent' = <<>>
    /\ UNCHANGED <<peer_heap, heap>>
    /\ CmdFrame

\* the process serving device commands while the main client connects,
\* loses its connection and receives the echoes of delivered commands
NextCommands ==
    \/ Lifecycle
    \/ \E m \in DeviceCommands : OnMessage(m.topic, m.payload)
    \/ ProcessWrite
    \/ Callbacks({})
    \/ \E state \in LedStates, delivered \in BOOLEAN : ControlArduinoLed(state, delivered)
    \/ \E temperature \in Temperatures, delivered \in BOOLEAN : ControlArduinoThermostat(temperature, delivered)
    \/ \E m \in DeviceCommands : SendMqttCommand(m.topic, m.payload)
    \/ \E m \in DeviceCommands, connected \in BOOLEAN : ChatCommand(m.topic, m.payload, connected)
    \/ \E action \in LedStates : ControlLed(action)
    \/ \E temperature \in Temperatures : ControlThermostat(temperature)
    \/ CmdDone

SpecCommands == Init /\ [][NextCommands]_vars

\* the argument of the device command is not one the operation accepts
InvalidArgument(req) ==
    \/ req.device = "led" /\ Upper(req.argument.v) \notin {P_ON, P_OFF}
    \/ req.device = "thermostat" /\ req.component = "mqtt_routes"
         /\ ~(16 <= req.argument.v /\ req.argument.v <= 30)
    \/ req.device = "thermostat" /\ req.component = "ai_service"
         /\ ~(18 <= req.argument.v /\ req.argument.v <= 30)

\* a failure outcome that names the invalid input and is not an internal error
ValidationError(outcome) ==
    /\ ~outcome.success
    /\ outcome.error # "None"
    /\ outcome.status_code \in {0} \cup (400..499)

\* C30: a device command with an invalid argument (an LED state other than
\* ON or OFF, a temperature outside the accepted range) is answered with a
\* validation error and not with an internal-error outcome, nothing is
\* published and no cache changes.
C30_InvalidCommandRejected ==
    [][(cmdReq = NoCmd /\ cmdReq' # NoCmd /\ InvalidArgument(cmdReq'))
        => /\ ValidationError(cmdOutcome')
           /\ cmdSent' = <<>>
           /\ heap' = heap
           /\ peer_heap' = peer_heap]_vars

\* C22: after a component has published a command, the state that
\* get_current_state() returns to every other component reflects it.
C22_OneSharedCache ==
    [][(cmdReq = NoCmd /\ cmdReq' # NoCmd /\ cmdSent' # <<>>)
        => \A c \in Components \ {cmdReq'.component} :
              Reflects(cmdSent'[1], IF InstanceOf(c) = "main" THEN heap' ELSE peer_heap'[InstanceOf(c)])]_vars


\* ------------------------------------------------------------------------
\* Live status: inbound messages forwarded to the WebSocket clients
\* ------------------------------------------------------------------------
\* the topics initialize_websocket_with_mqtt registers mqtt_callback for
LiveTopics == {T_dht11, T_led_cmd, T_thermostat_set}

\* initialize_websocket_with_mqtt(mqtt_service), run once by lifespan
InitializeWebsocketWithMqtt ==
    /\ \A t \in LiveTopics : message_callbacks[t] = <<>>
    /\ message_callbacks' = [t \in Topics |->
                                IF t \in LiveTopics
                                THEN Append(message_callbacks[t], WsHandler)
                                ELSE message_callbacks[t]]
    /\ stale' = stale \ {WsHandler}
    /\ UNCHANGED <<transportVars, cacheVars, inVars, sendVars, readerVars, nluVars>>

LiveMsgs ==
    {Msg(T_dht11, P_sensor), Msg(T_led_cmd, P_ON), Msg(T_led_cmd, P_OFF),
     Msg(T_thermostat_set, P_25), Msg(T_led_status, P_ON)}

\* the started process with WebSocket clients coming and going
NextLive ==
    \/ Lifecycle
    \/ InitializeWebsocketWithMqtt
    \/ \E c \in Connections : WsConnect(c)
    \/ \E c \in Connections : WsDisconnect(c)
    \/ \E m \in LiveMsgs : OnMessage(m.topic, m.payload)
    \/ ProcessWrite
    \/ Callbacks({})

SpecLive == Init /\ [][NextLive]_vars

\* C23: the cache update of an inbound message is complete before any
\* callback for the message runs, and when the live-status callback has run
\* for a message while subscribers are connected, it has forwarded to them a
\* state that includes that message's update.
C23_UpdateThenForward ==
    [][(inPc = "process" /\ inPc' = "idle")
        => /\ inPlan = <<>>
           /\ invoked = <<>>
           /\ Reflects(inMsg, heap)
           /\ (active_connections # <<>>
                 /\ \E i \in 1..Len(invoked') : invoked'[i].h = WsHandler)
                => /\ forwarded' # <<>>
                   /\ \A i \in 1..Len(forwarded') :
                         /\ forwarded'[i].topic = inMsg.topic
                         /\ Reflects(inMsg, forwarded'[i].current_state)]_vars

====
